---- MODULE Spec2Model ----
(***************************************************************************)
(* A model of the multilspy LSP client runtime:                            *)
(*   - the JSON-RPC engine of lsp_protocol_handler/server.py               *)
(*     (LanguageServerHandler: request ids, the _response_handlers table,  *)
(*     the read loop and its handler tasks, shutdown() and stop());        *)
(*   - the teardown of the server's process tree (_cleanup_process,        *)
(*     _terminate_or_kill_process, _signal_process_tree);                  *)
(*   - the start_server scopes of the language modules;                    *)
(*   - the blocking facade with its timeout.                               *)
(*                                                                         *)
(* One step of an action is what a coroutine does between two suspension   *)
(* points of the asyncio event loop, which runs one coroutine at a time.   *)
(***************************************************************************)
EXTENDS Integers, Sequences, FiniteSets, TLC

\* ------------------------------------------------------------------ bounds
\* Number of send_request calls made by callers other than shutdown().
NumCalls == 1
\* Number of notifications the client sends (besides `exit`).
NumNotifs == 1
\* Processes the child may fork.
NumDesc == 2
\* Blocking queries made through the facade, and the longest a query's work takes.
NumSyncCalls == 2
MaxWork == 2
\* Messages the server sends on its own: notifications and requests.
NumInbound == 2
\* Result values, error codes and error messages a response may carry.
NumResults == 2
NumCodes == 3
NumMessages == 3
\* How many times a document is opened anew and how deep its opens nest, edits per
\* opened document, and the characters of a text.
MaxOpens == 2
MaxEdits == 2
NumChars == 2
\* The longest text of a document whose edits are made by position, and the longest
\* text inserted into it.
MaxText == 2
\* Pipes, and processes, that raise when stop() closes or signals them.
MaxFaults == 1
\* Frames the server writes to the stream the read loop reads.
MaxFrames == 2

\* The Session's configured wait, in units of time (timeout=1 in the facade's test).
SyncTimeout == 1

\* ------------------------------------------------------------ RPC engine
VARIABLES
    process,            \* self.process: "none" or "running"
    request_id,         \* self.request_id: the next id to allocate
    handlers,           \* self._response_handlers: id -> the call whose Request it holds
    call,               \* per send_request call: position, id and its Request object
    received_shutdown,  \* self._received_shutdown
    tasks,              \* self.tasks: in creation order (index = task id + 1)
    stdin,              \* request and `exit` frames written to the child's stdin, in write order
    childEdits,         \* number of document notifications written to the child's stdin
    stdoutQ,            \* frames the child wrote to stdout, not yet read
    stdoutEof,          \* the child closed its stdout
    stdoutException,    \* process.stdout.set_exception(StopLoopException()) was called
    sdPc,               \* position of shutdown()
    stopPc,             \* position of stop()
    notifsSent,         \* number of notifications sent so far
    replies,            \* history: id -> the response the server wrote for it
    processed,          \* history: ids whose response _response_handler has popped
    allocLog            \* history: the ids allocated, in call order

\* ------------------------------------- start_server scope and process tree
VARIABLES
    lang,               \* the language module whose start_server is run
    scPc,               \* position in start_server
    scExit,             \* how the scope was left: "none", "normal" or "exception"
    bodyRaised,         \* the body of the caller's `async with` raised
    scWire,             \* methods of the frames start_server wrote, in order
    child,              \* the spawned child: "none", "alive", "zombie" (exited, returncode
                        \* not yet set) or "reaped" (returncode set)
    childIgnoresTerm,   \* the child does not exit on terminate
    desc,               \* per process the child may fork: "unborn", "alive" or "dead"
    descIgnoresTerm,    \* per such process: it does not exit on terminate
    tdPc,               \* position in stop() of the scope's handler
    signalLog,          \* signals sent by _signal_process_tree, in order
    closed,             \* pipes closed by _cleanup_process, in order
    closeRaises,        \* the pipes whose close() raises
    signalRaises,       \* the processes whose terminate()/kill() raises
    registered          \* the methods that have a handler on the server object

\* ------------------------------------------------------- blocking facade
VARIABLES
    syncCall,           \* per blocking query: position, duration of its work, time waited
    syncScope,          \* the facade's start_server scope: "new", "entered" or "left"
    loopAlive           \* the background event loop runs

\* ------------------------------------------------- the bytes on the wire
VARIABLES
    wire,               \* the segments written to the child's stdin, in order
    issued,             \* the payloads of the sends, in the order the sends were called
    arrived             \* number of messages the server has sent to the client

\* ------------------------------------- one response and its send_request
VARIABLES
    response,           \* the response payload the server sent
    request,            \* the Request object of the call: its result and error slots
    rqPc,               \* the call: "waiting", "notified", "returned" or "raised"
    rqOut               \* what the call returned or raised

\* ------------------------------------------------ the open-document overlay
VARIABLES
    open_file_buffers,  \* per path: the buffer of the open document, or NoBuffer
    docSent,            \* per path: the document notifications sent to the server
    docEdits            \* per path: the edits made since the document was opened

\* ------------------------------------------------ handshake and readiness
VARIABLES
    initResponse,       \* the answer to initialize that start_server has received:
                        \* "none", "ok", "mismatch" (other capabilities) or "error"
    server_ready,       \* the module's server_ready event is set
    completions_available,  \* the completions_available event is set
    service_ready_event \* the service_ready_event event is set

\* -------------------------------------------- one inbound message dispatched
VARIABLES
    logger,             \* the handler was constructed with a logger
    inbound,            \* the request or notification the server sent
    on_handlers,        \* what is registered for its method: nothing, or a handler
                        \* and what a call of it does
    inPc,               \* the _handle_body task of the message: "new" or "done"
    sendTasks,          \* payloads of the tasks send_response / send_error_response
                        \* created and that have not run yet
    written,            \* payloads written to the server for the message
    logged              \* what was passed to the logger

\* ------------------------------------------- the bytes of the child's stdout
VARIABLES
    frames,             \* history: the frames the child wrote, in order
    streamLen,          \* history: how many bytes of them reached the stream
    stream,             \* the bytes of the child's stdout that are not read yet
    streamEnd,          \* what a read finds after the last byte: "eof" or "reset"
    rfPc,               \* run_forever: "top", "header", "body", "returned", "raised"
    num_bytes,          \* run_forever: the Content-Length of the frame being read
    deframed,           \* the bodies handed to _handle_body tasks, in order
    handled,            \* how many of these tasks have run
    dispatched,         \* the payloads for which a handler was invoked, in order
    frameLog            \* what _log was called with, in order

rpcRest == <<request_id, handlers, call, received_shutdown, tasks, stdin,
             childEdits, stdoutQ, stdoutEof, stdoutException, sdPc, stopPc, notifsSent,
             replies, processed, allocLog>>
rpcVars == <<process, rpcRest>>
faultVars == <<closeRaises, signalRaises>>
lifeVars == <<lang, scPc, scExit, bodyRaised, scWire, child, childIgnoresTerm, desc,
              descIgnoresTerm, tdPc, signalLog, closed, faultVars, registered>>
syncVars == <<syncCall, syncScope, loopAlive>>

wireVars == <<wire, issued, arrived>>
respVars == <<response, request, rqPc, rqOut>>
docVars == <<open_file_buffers, docSent, docEdits>>
readyVars == <<initResponse, server_ready, completions_available, service_ready_event>>
inVars == <<logger, inbound, on_handlers, inPc, sendTasks, written, logged>>
frameVars == <<frames, streamLen, stream, streamEnd, rfPc, num_bytes, deframed, handled,
               dispatched, frameLog>>

vars == <<rpcVars, lifeVars, syncVars, wireVars, respVars, docVars, readyVars, inVars,
          frameVars>>

\* The call made by shutdown() (self.send.shutdown()); the others are 1..NumCalls.
SD == 0
\* No call: the value of an absent key of the table.
NoCall == -1
CallIds == 0..NumCalls
\* Python's None in a Request's result or error slot.
NoneVal == 0

MethodOf(c) == IF c = SD THEN "shutdown" ELSE "query"

NoMsg == [type |-> "none", id |-> 0, kind |-> "none", val |-> 0]

\* The ids the bounded number of calls can allocate.
Ids == 1..(NumCalls + 1)
Pending == {i \in Ids : handlers[i] # NoCall}
Replied == {i \in Ids : replies[i] # NoMsg}

\* make_request / make_notification: the payload of an outbound frame.
make_request(method, rid) == [type |-> "request", method |-> method, id |-> rid]
make_notification(method) == [type |-> "notification", method |-> method, id |-> 0]

\* Request.__init__: result and error start as None.
NewRequest == [pc |-> "idle", id |-> 0, result |-> NoneVal, error |-> NoneVal,
               notified |-> FALSE]

Outstanding(c) == call[c].pc \in {"draining", "waiting"}

RequestFrames == {i \in 1..Len(stdin) : stdin[i].type = "request"}
WrittenIds == {stdin[i].id : i \in RequestFrames}

\* LanguageServerHandler.__init__.
RpcInit ==
    /\ process = "none"
    /\ request_id = 1
    /\ handlers = [i \in Ids |-> NoCall]
    /\ call = [c \in CallIds |-> NewRequest]
    /\ received_shutdown = FALSE
    /\ tasks = <<>>
    /\ stdin = <<>>
    /\ childEdits = 0
    /\ stdoutQ = <<>>
    /\ stdoutEof = FALSE
    /\ stdoutException = FALSE
    /\ sdPc = "idle"
    /\ stopPc = "idle"
    /\ notifsSent = 0
    /\ replies = [i \in Ids |-> NoMsg]
    /\ processed = {}
    /\ allocLog = <<>>

\* The processes the spawned child may fork.
Descs == 1..NumDesc

\* The language modules of the repository.
Langs == {"codeql", "dart", "elixir", "gopls", "intelephense", "kotlin", "perl",
          "typescript"}

\* A language server object on which start_server has not been entered: module l, a
\* child that ignores terminate iff ct, forked processes that ignore it as dt says.
ScopeInit(l, ct, dt) ==
    /\ lang = l
    /\ scPc = "new"
    /\ scExit = "none"
    /\ bodyRaised = FALSE
    /\ scWire = <<>>
    /\ child = "none"
    /\ childIgnoresTerm = ct
    /\ desc = [d \in Descs |-> "unborn"]
    /\ descIgnoresTerm = dt
    /\ tdPc = "idle"
    /\ signalLog = <<>>
    /\ closed = <<>>
    /\ closeRaises = {}
    /\ signalRaises = {}
    /\ registered = {}

SyncCalls == 1..NumSyncCalls

\* A blocking query that has not been made.
\* work: the units its work takes; left: those still to run; waited: the time the
\* calling thread has waited; undone: the work left when the thread stopped waiting.
NewSyncCall == [pc |-> "idle", kind |-> "none", work |-> 0, left |-> 0, waited |-> 0,
                undone |-> 0]

\* The facade as created: no scope entered, no loop, no blocking query made.
FacadeInit ==
    /\ syncCall = [q \in SyncCalls |-> NewSyncCall]
    /\ syncScope = "new"
    /\ loopAlive = FALSE

\* Nothing written, nothing received.
WireInit ==
    /\ wire = <<>>
    /\ issued = <<>>
    /\ arrived = 0

\* ErrorCodes.InvalidRequest.
InvalidRequest == -32600

\* request.error when it is None, and an Error(code, message). Message 0 is "".
NoError == [isError |-> FALSE, code |-> 0, message |-> 0]
Error(code, message) == [isError |-> TRUE, code |-> code, message |-> message]

\* The "error" member of a response: code, message and whether it carries "data".
NoDict == [code |-> 0, message |-> 0, data |-> FALSE]
ErrorDict(code, message, data) == [code |-> code, message |-> message, data |-> data]

\* A response payload: "result" and "error" are keys it may or may not have.
Response(hasResult, result, hasError, error) ==
    [hasResult |-> hasResult, result |-> result, hasError |-> hasError, error |-> error]

\* What a call has returned or raised: nothing yet.
NoOutcome == [kind |-> "none", result |-> NoneVal, error |-> NoError]

\* A call suspended in request.cv.wait(), whose response r has just been read.
ResponseInit(r) ==
    /\ response = r
    /\ request = [result |-> NoneVal, error |-> NoError]
    /\ rqPc = "waiting"
    /\ rqOut = NoOutcome

\* The documents a caller may open. The overlay keeps one OpenDocument per path and
\* no operation touches two of them: one path stands for each.
Paths == {"DocumentSymbols.kt"}

\* The buffer of a document that is not open.
NoBuffer == [tracked |-> FALSE, text |-> <<>>, version |-> 0, count |-> 0]

\* No document open.
DocInit ==
    /\ open_file_buffers = [p \in Paths |-> NoBuffer]
    /\ docSent = [p \in Paths |-> <<>>]
    /\ docEdits = [p \in Paths |-> <<>>]

\* No answer to initialize yet, and the event not set (asyncio.Event()).
ReadyInit ==
    /\ initResponse = "none"
    /\ server_ready = FALSE
    /\ completions_available = FALSE
    /\ service_ready_event = FALSE

\* ErrorCodes.MethodNotFound and ErrorCodes.InternalError, and the message of
\* the error sent for a method without handler.
MethodNotFound == -32601
InternalError == -32603
NotHandledMessage == -1

\* What is registered for a method: nothing, or a handler that returns a value,
\* raises a protocol Error, raises another exception, or is cancelled while it runs.
Handler(kind, result, code, message) ==
    [kind |-> kind, result |-> result, code |-> code, message |-> message]

\* An inbound message waiting for its task to run, with a logger or not.
InboundInit(lg, msg, h) ==
    /\ logger = lg
    /\ inbound = msg
    /\ on_handlers = h
    /\ inPc = "new"
    /\ sendTasks = <<>>
    /\ written = <<>>
    /\ logged = <<>>

\* _log(message): passes the message to the logger if there is one.
Log(lg, entry) == IF lg THEN Append(logged, entry) ELSE logged

\* The groups of variables a specification does not drive.
IdleWire == WireInit
IdleResponse == ResponseInit(Response(TRUE, NoneVal, FALSE, NoDict))
IdleDoc == DocInit
IdleInbound ==
    InboundInit(TRUE, [type |-> "notification", method |-> "$/progress", id |-> 0],
                Handler("none", NoneVal, 0, 0))

\* No byte of the child's stdout is modelled: the read loop is the engine's.
NoLength == -1
FrameInit(fs, bytes, end) ==
    /\ frames = fs
    /\ streamLen = Len(bytes)
    /\ stream = bytes
    /\ streamEnd = end
    /\ rfPc = "top"
    /\ num_bytes = NoLength
    /\ deframed = <<>>
    /\ handled = 0
    /\ dispatched = <<>>
    /\ frameLog = <<>>

IdleFrame == FrameInit(<<>>, <<>>, "eof")

\* The handler as constructed, driven directly (the engine's specification).
Init ==
    /\ RpcInit
    /\ ScopeInit("gopls", FALSE, [d \in Descs |-> FALSE])
    /\ FacadeInit
    /\ IdleWire
    /\ IdleResponse
    /\ IdleDoc
    /\ ReadyInit
    /\ IdleInbound
    /\ IdleFrame

\* ---------------------------------------------------------------- start()
\* start(): spawn the child, then create the run_forever and run_forever_stderr tasks.
\* req: the Request a _handle_body task holds once it has popped it.
NewTask(kind, msg) == [kind |-> kind, msg |-> msg, pc |-> "new", req |-> NoCall]

\* A task that has finished: its body is garbage.
Done(task) == [task EXCEPT !.pc = "done", !.msg = NoMsg, !.req = NoCall]

Start ==
    /\ process = "none"
    /\ stopPc = "idle"
    /\ process' = "running"
    /\ tasks' = tasks \o << [NewTask("run_forever", NoMsg) EXCEPT !.pc = "running"],
                            [NewTask("run_forever_stderr", NoMsg) EXCEPT !.pc = "running"] >>
    /\ UNCHANGED <<request_id, handlers, call, received_shutdown, stdin, stdoutQ,
                   stdoutEof, stdoutException, sdPc, stopPc, notifsSent, replies,
                   processed, allocLog, childEdits>>
    /\ UNCHANGED <<lifeVars, syncVars, wireVars, respVars, docVars, readyVars, inVars, frameVars>>

\* ------------------------------------------------------------ send_request
\* _send_payload / _send_payload_sync: nothing is written without a process. The
\* child keeps the requests and `exit` it has read in order; a document notification
\* only changes its text of the document, which is counted.
IsEdit(payload) == payload.method = "textDocument/didChange"

WritePayload(payload) ==
    IF process = "running" /\ ~IsEdit(payload) THEN Append(stdin, payload) ELSE stdin

WriteEdit_Unguarded(payload) == IF IsEdit(payload) THEN childEdits + 1 ELSE childEdits
WriteEdit(payload) ==
    IF process = "running" /\ IsEdit(payload) THEN childEdits + 1 ELSE childEdits

\* Mutant: the increment is forgotten.
NextRequestId_NoIncrement(rid) == rid

\* self.request_id += 1
NextRequestId(rid) == rid + 1

\* Mutant: the Request is never put into the table.
Register_Forgotten(rid, c) == handlers

\* self._response_handlers[request_id] = request
Register(rid, c) == [handlers EXCEPT ![rid] = c]

\* send_request up to its first suspension: allocate the id, insert the Request,
\* take request.cv, write the frame; then either drain() suspends (the lock of
\* request.cv is still held) or the coroutine reaches request.cv.wait().
SendRequestBegin(c) ==
    /\ call[c].pc = "idle"
    /\ request_id \in Ids
    /\ request_id' = NextRequestId(request_id)
    /\ handlers' = Register(request_id, c)
    /\ allocLog' = Append(allocLog, request_id)
    /\ stdin' = WritePayload(make_request(MethodOf(c), request_id))
    /\ \E next \in (IF process = "running" THEN {"draining", "waiting"} ELSE {"waiting"}) :
          call' = [call EXCEPT ![c].pc = next, ![c].id = request_id]

\* A caller other than shutdown() calls send_request. Calls are interchangeable, so
\* they are taken in index order.
SendRequest(c) ==
    /\ c # SD
    /\ \A d \in 1..(c - 1) : call[d].pc # "idle"
    /\ SendRequestBegin(c)
    /\ UNCHANGED <<process, received_shutdown, tasks, stdoutQ, stdoutEof,
                   stdoutException, sdPc, stopPc, notifsSent, replies, processed, childEdits>>
    /\ UNCHANGED <<lifeVars, syncVars, wireVars, respVars, docVars, readyVars, inVars, frameVars>>

\* drain() returns: the coroutine goes on to request.cv.wait(), which releases the lock.
DrainDone(c) ==
    /\ call[c].pc = "draining"
    /\ call' = [call EXCEPT ![c].pc = "waiting"]
    /\ UNCHANGED <<process, request_id, handlers, received_shutdown, tasks, stdin,
                   stdoutQ, stdoutEof, stdoutException, sdPc, stopPc, notifsSent,
                   replies, processed, allocLog, childEdits>>
    /\ UNCHANGED <<lifeVars, syncVars, wireVars, respVars, docVars, readyVars, inVars, frameVars>>

\* The outcome of send_request once request.cv.wait() has returned:
\* raise request.error if it is an Error, else return request.result.
Outcome(req) == IF req.error # NoneVal THEN "raised" ELSE "returned"

\* wait() returns only after notify() (Request.on_result / on_error).
Woken(c) == call[c].pc = "waiting" /\ call[c].notified

Wake(c) ==
    /\ c # SD
    /\ Woken(c)
    /\ call' = [call EXCEPT ![c].pc = Outcome(call[c])]
    /\ UNCHANGED <<process, request_id, handlers, received_shutdown, tasks, stdin,
                   stdoutQ, stdoutEof, stdoutException, sdPc, stopPc, notifsSent,
                   replies, processed, allocLog, childEdits>>
    /\ UNCHANGED <<lifeVars, syncVars, wireVars, respVars, docVars, readyVars, inVars, frameVars>>

\* asyncio.wait_for(send_request(...), timeout) expires (as around `initialize` in
\* ElixirLanguageServer.start_server): the coroutine is cancelled at its suspension
\* point and the caller gets TimeoutError. Nothing else is done.
Timeout(c) ==
    /\ c # SD
    /\ Outstanding(c)
    /\ call' = [call EXCEPT ![c].pc = "timedout"]
    /\ UNCHANGED <<process, request_id, handlers, received_shutdown, tasks, stdin,
                   stdoutQ, stdoutEof, stdoutException, sdPc, stopPc, notifsSent,
                   replies, processed, allocLog, childEdits>>
    /\ UNCHANGED <<lifeVars, syncVars, wireVars, respVars, docVars, readyVars, inVars, frameVars>>

\* send_notification: no id is allocated, the frame is written synchronously.
SendNotification ==
    /\ notifsSent < NumNotifs
    /\ notifsSent' = notifsSent + 1
    /\ stdin' = WritePayload(make_notification("textDocument/didChange"))
    /\ childEdits' = WriteEdit(make_notification("textDocument/didChange"))
    /\ UNCHANGED <<process, request_id, handlers, call, received_shutdown, tasks,
                   stdoutQ, stdoutEof, stdoutException, sdPc, stopPc, replies,
                   processed, allocLog>>
    /\ UNCHANGED <<lifeVars, syncVars, wireVars, respVars, docVars, readyVars, inVars, frameVars>>

\* ------------------------------------------------------------- the server
\* The payload of the response to request i. The engine never inspects a payload, so
\* every response carries one that names the request it answers: a response
\* delivered to another call shows in what that call returns.
ReplyPayload(i) == i

\* The child answers a request it has read from its stdin, in any order, with a
\* result or an error.
ServerReply(i, kind) ==
    /\ process = "running"
    /\ ~stdoutEof
    /\ i \in WrittenIds \ Replied
    /\ LET msg == [type |-> "response", id |-> i, kind |-> kind, val |-> ReplyPayload(i)] IN
         /\ stdoutQ' = Append(stdoutQ, msg)
         /\ replies' = [replies EXCEPT ![i] = msg]
    /\ UNCHANGED <<process, request_id, handlers, call, received_shutdown, tasks, stdin,
                   stdoutEof, stdoutException, sdPc, stopPc, notifsSent, processed,
                   allocLog, childEdits>>
    /\ UNCHANGED <<lifeVars, syncVars, wireVars, respVars, docVars, readyVars, inVars, frameVars>>

\* The child closes its stdout (it exits or crashes), at any time.
ServerExit ==
    /\ process = "running"
    /\ ~stdoutEof
    /\ stdoutEof' = TRUE
    /\ UNCHANGED <<process, request_id, handlers, call, received_shutdown, tasks, stdin,
                   stdoutQ, stdoutException, sdPc, stopPc, notifsSent, replies,
                   processed, allocLog, childEdits>>
    /\ UNCHANGED <<lifeVars, syncVars, wireVars, respVars, docVars, readyVars, inVars, frameVars>>

\* ----------------------------------------------------------- run_forever
ReadLoop == 1
LoopRunning == Len(tasks) >= ReadLoop /\ tasks[ReadLoop].pc = "running"

\* One iteration of run_forever: a whole frame is read and a _handle_body task is
\* created for its body. Every read of the stream raises once set_exception was called.
ReadFrame ==
    /\ LoopRunning
    /\ process = "running"
    /\ ~stdoutException
    /\ stdoutQ # <<>>
    /\ tasks' = Append(tasks, NewTask("handle_body", Head(stdoutQ)))
    /\ stdoutQ' = Tail(stdoutQ)
    /\ UNCHANGED <<process, request_id, handlers, call, received_shutdown, stdin,
                   stdoutEof, stdoutException, sdPc, stopPc, notifsSent, replies,
                   processed, allocLog, childEdits>>
    /\ UNCHANGED <<lifeVars, syncVars, wireVars, respVars, docVars, readyVars, inVars, frameVars>>

\* run_forever returns: at_eof() (EOF and nothing buffered), or the read raised
\* StopLoopException; a broken pipe or a reset connection ends it the same way.
LoopEnds == stdoutException \/ (stdoutEof /\ stdoutQ = <<>>)

ReadLoopEnd ==
    /\ LoopRunning
    /\ LoopEnds
    /\ tasks' = [tasks EXCEPT ![ReadLoop] = Done(tasks[ReadLoop])]
    /\ UNCHANGED <<process, request_id, handlers, call, received_shutdown, stdin,
                   stdoutQ, stdoutEof, stdoutException, sdPc, stopPc, notifsSent,
                   replies, processed, allocLog, childEdits>>
    /\ UNCHANGED <<lifeVars, syncVars, wireVars, respVars, docVars, readyVars, inVars, frameVars>>

\* ------------------------------------------------------ _response_handler
\* Mutant: the oldest pending Request is taken, whatever id the response carries.
HandlerKey_Oldest(msg) ==
    IF Pending = {} THEN msg.id ELSE CHOOSE k \in Pending : \A j \in Pending : k <= j

\* response["id"]: the key under which the Request is looked up.
HandlerKey(msg) == msg.id

\* self._response_handlers.pop(key)
Pop_Keeps(key) == handlers
Pop(key) == [handlers EXCEPT ![key] = NoCall]

\* Request.on_result / Request.on_error store the payload before taking request.cv.
Deliver(req, msg) ==
    IF msg.kind = "result" THEN [req EXCEPT !.result = msg.val]
                           ELSE [req EXCEPT !.error = msg.val]

\* send_request holds the lock of request.cv from `async with request.cv` until
\* request.cv.wait() releases it, that is while it awaits drain().
LockHeld_Never(c) == FALSE
LockHeld(c) == call[c].pc = "draining"

\* The event loop starts the tasks in the order they were created.
FirstNew(t) == \A u \in 1..(t - 1) : tasks[u].pc # "new"

\* notify() wakes the coroutine waiting on the condition, if there is one.
Notify(req) == IF req.pc = "waiting" THEN [req EXCEPT !.notified = TRUE] ELSE req

\* A _handle_body task runs _receive_payload -> _response_handler. An unknown id makes
\* pop raise KeyError, which _receive_payload logs. Otherwise the payload is stored
\* and the task takes request.cv: at once when the lock is free, and after a
\* suspension when send_request still holds it around drain().
HandleBody(t) ==
    /\ t \in 1..Len(tasks)
    /\ tasks[t].kind = "handle_body"
    /\ tasks[t].pc = "new"
    /\ FirstNew(t)
    /\ LET msg == tasks[t].msg
           key == HandlerKey(msg) IN
         IF key \notin Pending
         THEN \* pop() raises KeyError, which _receive_payload catches and logs
              /\ tasks' = [tasks EXCEPT ![t] = Done(tasks[t])]
              /\ logged' = Log(logger, [what |-> "KeyError", message |-> key])
              /\ UNCHANGED <<handlers, call, processed>>
         ELSE LET c == handlers[key]
                  req == Deliver(call[c], msg) IN
              /\ handlers' = Pop(key)
              /\ logged' = logged
              /\ processed' = processed \cup {key}
              /\ IF LockHeld(c)
                 THEN /\ call' = [call EXCEPT ![c] = req]
                      /\ tasks' = [tasks EXCEPT ![t].pc = "lock", ![t].req = c]
                 ELSE /\ call' = [call EXCEPT ![c] = Notify(req)]
                      /\ tasks' = [tasks EXCEPT ![t] = Done(tasks[t])]
    /\ UNCHANGED <<process, request_id, received_shutdown, stdin, stdoutQ, stdoutEof,
                   stdoutException, sdPc, stopPc, notifsSent, replies, allocLog, childEdits>>
    /\ UNCHANGED <<logger, inbound, on_handlers, inPc, sendTasks, written>>
    /\ UNCHANGED <<lifeVars, syncVars, wireVars, respVars, docVars, readyVars, frameVars>>

\* The suspended handler task gets request.cv once send_request has released it
\* (it reached wait(), or it was cancelled), and notifies.
HandlerAcquire(t) ==
    /\ t \in 1..Len(tasks)
    /\ tasks[t].pc = "lock"
    /\ ~LockHeld(tasks[t].req)
    /\ call' = [call EXCEPT ![tasks[t].req] = Notify(call[tasks[t].req])]
    /\ tasks' = [tasks EXCEPT ![t] = Done(tasks[t])]
    /\ UNCHANGED <<process, request_id, handlers, received_shutdown, stdin, stdoutQ,
                   stdoutEof, stdoutException, sdPc, stopPc, notifsSent, replies,
                   processed, allocLog, childEdits>>
    /\ UNCHANGED <<lifeVars, syncVars, wireVars, respVars, docVars, readyVars, inVars, frameVars>>

\* --------------------------------------------------------------- shutdown()
\* shutdown() starts with `await self.send.shutdown()`: a send_request("shutdown").
ShutdownBegin ==
    /\ sdPc = "idle"
    /\ process = "running"
    /\ SendRequestBegin(SD)
    /\ sdPc' = "request"
    /\ UNCHANGED <<process, received_shutdown, tasks, stdoutQ, stdoutEof,
                   stdoutException, stopPc, notifsSent, replies, processed, childEdits>>
    /\ UNCHANGED <<lifeVars, syncVars, wireVars, respVars, docVars, readyVars, inVars, frameVars>>

\* Mutant: shutdown() does not await the reply of its request.
ShutdownReplied_NotAwaited == call[SD].pc \in {"draining", "waiting"}

\* `await self.send.shutdown()` is over: the shutdown call was woken.
ShutdownReplied == Woken(SD)

\* The rest of shutdown() up to its sleep(0): an error reply is raised to the caller
\* of shutdown(); otherwise the flag is set, `exit` is written, and the stream of
\* the read loop is given the StopLoopException.
ShutdownResume ==
    /\ sdPc = "request"
    /\ ShutdownReplied
    /\ call' = [call EXCEPT ![SD].pc = Outcome(call[SD])]
    /\ IF Outcome(call[SD]) = "raised"
       THEN /\ sdPc' = "raised"
            /\ UNCHANGED <<received_shutdown, stdin, stdoutException>>
       ELSE /\ received_shutdown' = TRUE
            /\ stdin' = WritePayload(make_notification("exit"))
            /\ stdoutException' = (stdoutException \/ process = "running")
            /\ sdPc' = IF process = "running" THEN "sleep0" ELSE "done"
    /\ UNCHANGED <<process, request_id, handlers, tasks, stdoutQ, stdoutEof, stopPc,
                   notifsSent, replies, processed, allocLog, childEdits>>
    /\ UNCHANGED <<lifeVars, syncVars, wireVars, respVars, docVars, readyVars, inVars, frameVars>>

\* asyncio.sleep(0) returns and so does shutdown().
ShutdownEnd ==
    /\ sdPc = "sleep0"
    /\ sdPc' = "done"
    /\ UNCHANGED <<process, request_id, handlers, call, received_shutdown, tasks, stdin,
                   stdoutQ, stdoutEof, stdoutException, stopPc, notifsSent, replies,
                   processed, allocLog, childEdits>>
    /\ UNCHANGED <<lifeVars, syncVars, wireVars, respVars, docVars, readyVars, inVars, frameVars>>

\* ------------------------------------------------------------------- stop()
\* task.cancel() on every task that is not done; a cancelled task stops at its
\* suspension point (no handler of this model swallows the cancellation).
Cancel(task) ==
    IF task.pc = "done" THEN task
    ELSE [task EXCEPT !.pc = "cancelled", !.msg = NoMsg, !.req = NoCall]

\* stop() is called by the start_server scope once shutdown() is over (returned, or
\* raised where the module catches it). _cancel_pending_tasks cancels and awaits.
StopCancel ==
    /\ stopPc = "idle"
    /\ sdPc \in {"done", "raised"}
    /\ tasks' = [t \in 1..Len(tasks) |-> Cancel(tasks[t])]
    /\ stopPc' = "gather"
    /\ UNCHANGED <<process, request_id, handlers, call, received_shutdown, stdin,
                   stdoutQ, stdoutEof, stdoutException, sdPc, notifsSent, replies,
                   processed, allocLog, childEdits>>
    /\ UNCHANGED <<lifeVars, syncVars, wireVars, respVars, docVars, readyVars, inVars, frameVars>>

\* The rest of stop(): self.tasks = {}, self.process = None, _cleanup_process
\* (whose process-tree part is the teardown model below).
StopFinish ==
    /\ stopPc = "gather"
    /\ tasks' = <<>>
    /\ process' = "none"
    /\ stopPc' = "done"
    /\ UNCHANGED <<request_id, handlers, call, received_shutdown, stdin, stdoutQ,
                   stdoutEof, stdoutException, sdPc, notifsSent, replies, processed,
                   allocLog, childEdits>>
    /\ UNCHANGED <<lifeVars, syncVars, wireVars, respVars, docVars, readyVars, inVars, frameVars>>

\* -------------------------------------------------------------------- Spec
Next ==
    \/ Start
    \/ \E c \in CallIds : SendRequest(c)
    \/ \E c \in CallIds : DrainDone(c)
    \/ \E c \in CallIds : Wake(c)
    \/ \E c \in CallIds : Timeout(c)
    \/ SendNotification
    \/ \E i \in Ids, kind \in {"result", "error"} : ServerReply(i, kind)
    \/ ServerExit
    \/ ReadFrame
    \/ ReadLoopEnd
    \/ \E t \in 1..Len(tasks) : HandleBody(t)
    \/ \E t \in 1..Len(tasks) : HandlerAcquire(t)
    \/ ShutdownBegin
    \/ ShutdownResume
    \/ ShutdownEnd
    \/ StopCancel
    \/ StopFinish

Spec == Init /\ [][Next]_vars

\* ================================================== the process tree
\* What the operating system does, whatever the client does.

\* The child forks process d (create_subprocess_shell spawns a shell: the language
\* server itself is normally a process the shell forks).
Fork(d) ==
    /\ child = "alive"
    /\ desc[d] = "unborn"
    /\ desc' = [desc EXCEPT ![d] = "alive"]
    /\ UNCHANGED <<registered, lang, scPc, scExit, bodyRaised, scWire, child, childIgnoresTerm,
                   descIgnoresTerm, tdPc, signalLog, closed>>
    /\ UNCHANGED <<rpcVars, syncVars, wireVars, respVars, docVars, readyVars, inVars, faultVars, frameVars>>

\* The child exits on its own (a crash, or its answer to `exit` or to the end of its
\* stdin). The processes it forked live on, re-parented.
ChildExit ==
    /\ child = "alive"
    /\ child' = "zombie"
    /\ UNCHANGED <<registered, lang, scPc, scExit, bodyRaised, scWire, childIgnoresTerm, desc,
                   descIgnoresTerm, tdPc, signalLog, closed>>
    /\ UNCHANGED <<rpcVars, syncVars, wireVars, respVars, docVars, readyVars, inVars, faultVars, frameVars>>

\* asyncio's child watcher reaps the exited child: process.returncode is set and
\* process.wait() returns.
ChildReap ==
    /\ child = "zombie"
    /\ child' = "reaped"
    /\ UNCHANGED <<registered, lang, scPc, scExit, bodyRaised, scWire, childIgnoresTerm, desc,
                   descIgnoresTerm, tdPc, signalLog, closed>>
    /\ UNCHANGED <<rpcVars, syncVars, wireVars, respVars, docVars, readyVars, inVars, faultVars, frameVars>>

\* A forked process exits on its own.
DescExit(d) ==
    /\ desc[d] = "alive"
    /\ desc' = [desc EXCEPT ![d] = "dead"]
    /\ UNCHANGED <<registered, lang, scPc, scExit, bodyRaised, scWire, child, childIgnoresTerm,
                   descIgnoresTerm, tdPc, signalLog, closed>>
    /\ UNCHANGED <<rpcVars, syncVars, wireVars, respVars, docVars, readyVars, inVars, faultVars, frameVars>>

\* ============================================== stop(): the process tree
\* process.returncode is None.
ReturncodeIsNone_Always == TRUE
ReturncodeIsNone == child \in {"alive", "zombie"}

\* parent.children(recursive=True): what psutil finds below the child. A child that
\* has exited has no children any more (they were re-parented), and for a reaped
\* child psutil.Process(pid) raises, which leaves the direct signal only.
Children == IF child = "alive" THEN {d \in Descs : desc[d] = "alive"} ELSE {}

\* A process that gets the signal exits, unless the signal is terminate and the
\* process ignores it.
Dies(sig, ignores) == sig = "kill" \/ ~ignores

\* The spawned child among the processes a tree signal is sent to.
TheChild == 0

\* The elements of a set of numbers, ascending.
RECURSIVE Ascending(_)
Ascending(S) ==
    IF S = {} THEN <<>>
    ELSE LET m == CHOOSE x \in S : \A y \in S : x <= y
         IN  <<m>> \o Ascending(S \ {m})

\* How many steps of a sequence of guarded steps run: all of them, or those up to
\* and including the first whose exception is not caught.
Ran(outcomes) ==
    LET bad == {i \in 1..Len(outcomes) : outcomes[i] = "raised"}
    IN  IF bad = {} THEN Len(outcomes)
        ELSE CHOOSE i \in bad : \A j \in bad : i <= j

\* getattr(child, signal_method)() inside its try: NoSuchProcess, AccessDenied and
\* every other exception are caught and passed over.
SignalOutcome_Unguarded(t) == IF t \in signalRaises THEN "raised" ELSE "sent"
SignalOutcome(t) == IF t \in signalRaises THEN "swallowed" ELSE "sent"

\* The processes _signal_process_tree signals, in order: the children psutil
\* enumerates now, then the parent (or, without a psutil parent, the process).
Targets == Ascending(Children) \o <<TheChild>>

\* _signal_process_tree(process, terminate): what it leaves behind.
TreeSignal(sig) ==
    LET outcomes == [i \in 1..Len(Targets) |-> SignalOutcome(Targets[i])]
        n == Ran(outcomes)
        got == {Targets[i] : i \in {j \in 1..n : outcomes[j] = "sent"}}
    IN  [desc |-> [d \in Descs |->
                     IF d \in got /\ Dies(sig, descIgnoresTerm[d]) THEN "dead"
                     ELSE desc[d]],
         child |-> IF TheChild \in got /\ child = "alive" /\ Dies(sig, childIgnoresTerm)
                   THEN "zombie" ELSE child,
         entry |-> [sig |-> sig, children |-> Children,
                    order |-> SubSeq(Targets, 1, n),
                    raised |-> outcomes[n] = "raised"]]

SignalProcessTree(sig) ==
    /\ desc' = TreeSignal(sig).desc
    /\ child' = TreeSignal(sig).child
    /\ signalLog' = Append(signalLog, TreeSignal(sig).entry)

\* pipe.close() inside _safely_close_pipe: an exception is caught and passed over.
Pipes == {"stdin", "stdout", "stderr"}
CloseOutcome_Unguarded(pipe) == IF pipe \in closeRaises THEN "raised" ELSE "closed"
CloseOutcome(pipe) == IF pipe \in closeRaises THEN "swallowed" ELSE "closed"

\* _safely_close_pipe on each pipe of ps in turn; each entry of the log holds how
\* many tree signals had been sent when the pipe was closed.
SafelyClose(ps) ==
    LET outcomes == [i \in 1..Len(ps) |-> CloseOutcome(ps[i])]
        n == Ran(outcomes)
    IN  [log |-> [i \in 1..n |-> [pipe |-> ps[i], outcome |-> outcomes[i],
                                  signals |-> Len(signalLog)]],
         raised |-> outcomes[n] = "raised"]

\* _cleanup_process after the wait: close stdout and stderr, then sleep(0.5).
ClosePipes ==
    /\ closed' = closed \o SafelyClose(<<"stdout", "stderr">>).log
    /\ tdPc' = IF SafelyClose(<<"stdout", "stderr">>).raised THEN "raised" ELSE "sleep"

\* stop() up to the end of _cancel_pending_tasks: every task that is not done is
\* cancelled and awaited, then self.tasks = {} (the engine's StopCancel shows the
\* cancellation task by task).
TdCancelTasks ==
    /\ tdPc = "cancel"
    /\ tdPc' = "cleanup"
    /\ tasks' = <<>>
    /\ sendTasks' = <<>>
    /\ UNCHANGED <<registered, lang, scPc, scExit, bodyRaised, scWire, child, childIgnoresTerm,
                   desc, descIgnoresTerm, signalLog, closed>>
    /\ UNCHANGED <<process, request_id, handlers, call, received_shutdown, stdin, childEdits,
                   stdoutQ, stdoutEof, stdoutException, sdPc, stopPc, notifsSent, replies,
                   processed, allocLog>>
    /\ UNCHANGED <<logger, inbound, on_handlers, inPc, written, logged>>
    /\ UNCHANGED <<syncVars, wireVars, respVars, docVars, readyVars, faultVars, frameVars>>

\* stop() after the gather: self.process = None; no process: return. Otherwise
\* _cleanup_process: close stdin, and only if returncode is None signal the tree and
\* wait; else close the other pipes at once.
TdCleanup ==
    /\ tdPc = "cleanup"
    /\ process' = "none"
    /\ IF process = "none"
       THEN /\ tdPc' = "done"
            /\ UNCHANGED <<child, desc, signalLog, closed>>
       ELSE IF ReturncodeIsNone /\ ~SafelyClose(<<"stdin">>).raised
       THEN /\ closed' = closed \o SafelyClose(<<"stdin">>).log
            /\ SignalProcessTree("terminate")
            /\ tdPc' = IF TreeSignal("terminate").entry.raised THEN "raised"
                       ELSE "termWait"
       ELSE LET c == SafelyClose(IF ReturncodeIsNone THEN <<"stdin">>
                                 ELSE <<"stdin", "stdout", "stderr">>)
            IN  /\ closed' = closed \o c.log
                /\ tdPc' = IF c.raised THEN "raised" ELSE "sleep"
                /\ UNCHANGED <<child, desc, signalLog>>
    /\ UNCHANGED <<registered, lang, scPc, scExit, bodyRaised, scWire, childIgnoresTerm,
                   descIgnoresTerm>>
    /\ UNCHANGED <<rpcRest, syncVars, wireVars, respVars, docVars, readyVars, inVars, faultVars, frameVars>>

\* wait_for(process.wait(), timeout=10) returns: the child was reaped in time.
TdTermExited ==
    /\ tdPc = "termWait"
    /\ child = "reaped"
    /\ ClosePipes
    /\ UNCHANGED <<registered, lang, scPc, scExit, bodyRaised, scWire, child, childIgnoresTerm,
                   desc, descIgnoresTerm, signalLog>>
    /\ UNCHANGED <<rpcVars, syncVars, wireVars, respVars, docVars, readyVars, inVars, faultVars, frameVars>>

\* wait_for(process.wait(), timeout=10) times out, the child not having exited:
\* kill the tree, wait again.
TdTermTimeout ==
    /\ tdPc = "termWait"
    /\ child = "alive"
    /\ SignalProcessTree("kill")
    /\ tdPc' = IF TreeSignal("kill").entry.raised THEN "raised" ELSE "killWait"
    /\ UNCHANGED <<registered, lang, scPc, scExit, bodyRaised, scWire, childIgnoresTerm,
                   descIgnoresTerm, closed>>
    /\ UNCHANGED <<rpcVars, syncVars, wireVars, respVars, docVars, readyVars, inVars, faultVars, frameVars>>

\* wait_for(process.wait(), timeout=2) returns, or times out (the exception is
\* swallowed): either way the pipes are closed next.
TdKillWaited ==
    /\ tdPc = "killWait"
    /\ ClosePipes
    /\ UNCHANGED <<registered, lang, scPc, scExit, bodyRaised, scWire, child, childIgnoresTerm,
                   desc, descIgnoresTerm, signalLog>>
    /\ UNCHANGED <<rpcVars, syncVars, wireVars, respVars, docVars, readyVars, inVars, faultVars, frameVars>>

\* asyncio.sleep(0.5) is over: stop() returns.
TdSleepEnd ==
    /\ tdPc = "sleep"
    /\ tdPc' = "done"
    /\ UNCHANGED <<registered, lang, scPc, scExit, bodyRaised, scWire, child, childIgnoresTerm,
                   desc, descIgnoresTerm, signalLog, closed>>
    /\ UNCHANGED <<rpcVars, syncVars, wireVars, respVars, docVars, readyVars, inVars, faultVars, frameVars>>

\* ======================================== start_server of the language modules
\* The modules that assert on the capabilities of the initialize response.
AssertsCapabilities(l) == l \in {"codeql", "gopls", "kotlin"}

\* The module that awaits the initialize response under asyncio.wait_for.
InitializeHasTimeout(l) == l = "elixir"

\* The module whose `yield self` is inside a try whose finally holds the teardown.
YieldInsideTry(l) == l = "dart"

\* The module that catches an exception of shutdown() before it calls stop().
CatchesShutdownError(l) == l = "kotlin"

\* The modules that have a server_ready event: the one whose handler of
\* experimental/serverStatus sets it when the server is quiescent, and those whose
\* start_server sets it itself right before it waits for it.
HasServerReady(l) == l \in {"codeql", "gopls", "typescript"}
LatchesOnStatus(l) == l = "codeql"
SetsServerReady(l) == l \in {"gopls", "typescript"}

\* completions_available: set by start_server after `initialized`, or by the handler
\* of experimental/serverStatus when the server is quiescent.
SetsCompletions(l) == l \in {"codeql", "elixir", "gopls", "kotlin", "typescript"}
CompletionsOnStatus(l) == l = "perl"

\* service_ready_event: set by the handler of language/status on ServiceReady.
HasLangStatusHandler(l) == l \in {"codeql", "gopls"}

\* event.set() under a condition: an event that is set stays set.
Latch_Follows(event, cond) == cond
Latch(event, cond) == event \/ cond

\* The calls of on_request and on_notification in start_server of each module, each
\* with its line, and the line of `await self.server.start()`.
Registrations(l) ==
    CASE l = "codeql" ->
             {<<"client/registerCapability", 142>>,
              <<"language/status", 143>>,
              <<"window/logMessage", 144>>,
              <<"workspace/executeClientCommand", 145>>,
              <<"$/progress", 146>>,
              <<"textDocument/publishDiagnostics", 147>>,
              <<"language/actionableNotification", 148>>,
              <<"experimental/serverStatus", 149>>}
      [] l = "dart" ->
             {<<"client/registerCapability", 110>>,
              <<"language/status", 111>>,
              <<"window/logMessage", 112>>,
              <<"workspace/executeClientCommand", 113>>,
              <<"$/progress", 116>>,
              <<"textDocument/publishDiagnostics", 117>>,
              <<"language/actionableNotification", 118>>,
              <<"experimental/serverStatus", 119>>}
      [] l = "elixir" ->
             {<<"client/registerCapability", 118>>,
              <<"language/status", 119>>,
              <<"window/logMessage", 120>>,
              <<"window/showMessage", 121>>,
              <<"workspace/executeClientCommand", 122>>,
              <<"$/progress", 123>>,
              <<"textDocument/publishDiagnostics", 124>>,
              <<"language/actionableNotification", 125>>,
              <<"experimental/serverStatus", 126>>}
      [] l = "gopls" ->
             {<<"client/registerCapability", 162>>,
              <<"language/status", 163>>,
              <<"window/logMessage", 164>>,
              <<"workspace/executeClientCommand", 165>>,
              <<"$/progress", 166>>,
              <<"textDocument/publishDiagnostics", 167>>,
              <<"language/actionableNotification", 168>>,
              <<"window/workDoneProgress/create", 169>>,
              <<"workspace/configuration", 170>>}
      [] l = "intelephense" ->
             {<<"client/registerCapability", 128>>,
              <<"language/status", 129>>,
              <<"window/logMessage", 130>>,
              <<"workspace/executeClientCommand", 131>>,
              <<"$/progress", 134>>,
              <<"textDocument/publishDiagnostics", 135>>,
              <<"language/actionableNotification", 136>>,
              <<"experimental/serverStatus", 137>>}
      [] l = "kotlin" ->
             {<<"client/registerCapability", 194>>,
              <<"language/status", 195>>,
              <<"window/logMessage", 196>>,
              <<"workspace/executeClientCommand", 197>>,
              <<"$/progress", 198>>,
              <<"textDocument/publishDiagnostics", 199>>,
              <<"language/actionableNotification", 200>>}
      [] l = "perl" ->
             {<<"client/registerCapability", 210>>,
              <<"language/status", 211>>,
              <<"window/logMessage", 212>>,
              <<"workspace/executeClientCommand", 213>>,
              <<"$/progress", 214>>,
              <<"textDocument/publishDiagnostics", 215>>,
              <<"language/actionableNotification", 216>>,
              <<"experimental/serverStatus", 217>>}
      [] l = "typescript" ->
             {<<"client/registerCapability", 105>>,
              <<"window/logMessage", 106>>,
              <<"workspace/executeClientCommand", 107>>,
              <<"$/progress", 108>>,
              <<"textDocument/publishDiagnostics", 109>>}

StartLine_First(l) == 0
StartLine(l) ==
    CASE l = "codeql" -> 153
      [] l = "dart" -> 127
      [] l = "elixir" -> 130
      [] l = "gopls" -> 174
      [] l = "intelephense" -> 143
      [] l = "kotlin" -> 204
      [] l = "perl" -> 221
      [] l = "typescript" -> 113

\* The methods module l gives a handler, and those it has given one when it starts
\* the server process.
HandlersOf(l) == {r[1] : r \in Registrations(l)}
BeforeStart(l) == {r[1] : r \in {q \in Registrations(l) : q[2] < StartLine(l)}}

\* _notification_handler finds a handler of the method (without one the
\* notification is dropped).
Handled(method) == method \in registered

\* The scope is left by an exception that nothing in start_server catches.
ScopeRaises ==
    /\ scPc' = "exited"
    /\ scExit' = "exception"

\* start_server up to its first suspension: the handlers are registered.
ScRegister ==
    /\ scPc = "new"
    /\ scPc' = "registered"
    /\ registered' = BeforeStart(lang)
    /\ UNCHANGED <<lang, scExit, bodyRaised, scWire, child, childIgnoresTerm, desc,
                   descIgnoresTerm, tdPc, signalLog, closed>>
    /\ UNCHANGED <<rpcVars, syncVars, wireVars, respVars, docVars, readyVars, inVars, faultVars, frameVars>>

\* What start_server writes before it waits for the answer to initialize.
SpawnWrites_Both == <<"initialize", "initialized">>
SpawnWrites == <<"initialize">>

\* await self.server.start(), then send.initialize(...) up to its wait.
ScSpawn ==
    /\ scPc = "registered"
    /\ child' = "alive"
    /\ process' = "running"
    /\ scWire' = scWire \o SpawnWrites
    /\ scPc' = "initialize"
    /\ UNCHANGED <<registered, lang, scExit, bodyRaised, childIgnoresTerm, desc, descIgnoresTerm,
                   tdPc, signalLog, closed>>
    /\ UNCHANGED <<rpcRest, syncVars, wireVars, respVars, docVars, readyVars, inVars, faultVars, frameVars>>

\* The server answers initialize: with the expected capabilities ("ok"), with other
\* capabilities ("mismatch"), or with an error. An error is raised by send_request, a
\* mismatch by the asserts of the modules that have them; otherwise `initialized`
\* is sent and the scope body runs.
ScInitReply(kind) ==
    /\ scPc = "initialize"
    /\ child = "alive"
    /\ initResponse' = kind
    /\ IF kind = "error" \/ (kind = "mismatch" /\ AssertsCapabilities(lang))
       THEN /\ ScopeRaises
            /\ UNCHANGED <<scWire, server_ready, completions_available>>
       ELSE /\ scWire' = Append(scWire, "initialized")
            /\ completions_available' = Latch(completions_available, SetsCompletions(lang))
            /\ server_ready' = Latch(server_ready, SetsServerReady(lang))
            /\ scPc' = "body"
            /\ UNCHANGED scExit
    /\ UNCHANGED <<registered, lang, bodyRaised, child, childIgnoresTerm, desc, descIgnoresTerm,
                   tdPc, signalLog, closed, service_ready_event>>
    /\ UNCHANGED <<rpcVars, syncVars, wireVars, respVars, docVars, inVars, faultVars, frameVars>>

\* The server sends experimental/serverStatus: the handler the module registered
\* for it runs (check_experimental_status).
ServerStatus(quiescent) ==
    /\ process = "running"
    /\ child = "alive"
    /\ scPc \in {"initialize", "body"}
    /\ server_ready' =
          Latch(server_ready, /\ quiescent
                              /\ LatchesOnStatus(lang)
                              /\ Handled("experimental/serverStatus"))
    /\ completions_available' =
          Latch(completions_available, /\ quiescent
                                       /\ CompletionsOnStatus(lang)
                                       /\ Handled("experimental/serverStatus"))
    /\ UNCHANGED <<initResponse, service_ready_event>>
    /\ UNCHANGED <<rpcVars, lifeVars, syncVars, wireVars, respVars, docVars, inVars, frameVars>>

\* The server sends language/status: the lang_status_handler of the module runs.
LanguageStatus(serviceReady) ==
    /\ process = "running"
    /\ child = "alive"
    /\ scPc \in {"initialize", "body"}
    /\ service_ready_event' =
          Latch(service_ready_event, /\ serviceReady
                                     /\ HasLangStatusHandler(lang)
                                     /\ Handled("language/status"))
    /\ UNCHANGED <<initResponse, server_ready, completions_available>>
    /\ UNCHANGED <<rpcVars, lifeVars, syncVars, wireVars, respVars, docVars, inVars, frameVars>>

\* wait_for(..., timeout=60) around initialize expires; the module re-raises.
ScInitTimeout ==
    /\ scPc = "initialize"
    /\ InitializeHasTimeout(lang)
    /\ ScopeRaises
    /\ UNCHANGED <<registered, lang, bodyRaised, scWire, child, childIgnoresTerm, desc,
                   descIgnoresTerm, tdPc, signalLog, closed>>
    /\ UNCHANGED <<rpcVars, syncVars, wireVars, respVars, docVars, readyVars, inVars, faultVars, frameVars>>

\* The statement after `yield self` is reached: shutdown() sends its request.
TeardownBegins ==
    /\ scWire' = Append(scWire, "shutdown")
    /\ scPc' = "shutdown"

\* The body of the caller's `async with` ends normally.
ScBodyReturns ==
    /\ scPc = "body"
    /\ TeardownBegins
    /\ UNCHANGED <<registered, lang, scExit, bodyRaised, child, childIgnoresTerm, desc,
                   descIgnoresTerm, tdPc, signalLog, closed>>
    /\ UNCHANGED <<rpcVars, syncVars, wireVars, respVars, docVars, readyVars, inVars, faultVars, frameVars>>

\* The body of the caller's `async with` raises: the exception is thrown into the
\* generator at `yield self`. A finally around the yield runs the teardown; without
\* one the exception leaves start_server at once.
ScBodyRaises ==
    /\ scPc = "body"
    /\ bodyRaised' = TRUE
    /\ IF YieldInsideTry(lang)
       THEN /\ TeardownBegins
            /\ UNCHANGED scExit
       ELSE /\ ScopeRaises
            /\ UNCHANGED scWire
    /\ UNCHANGED <<registered, lang, child, childIgnoresTerm, desc, descIgnoresTerm, tdPc,
                   signalLog, closed>>
    /\ UNCHANGED <<rpcVars, syncVars, wireVars, respVars, docVars, readyVars, inVars, faultVars, frameVars>>

\* The server answers shutdown. A result: shutdown() sends `exit` and returns, and
\* stop() is called. An error: shutdown() raises, which only the module that catches
\* it survives to call stop().
ScShutdownReply(kind) ==
    /\ scPc = "shutdown"
    /\ child = "alive"
    /\ IF kind = "error" /\ ~CatchesShutdownError(lang)
       THEN /\ ScopeRaises
            /\ UNCHANGED <<scWire, tdPc>>
       ELSE /\ scWire' = IF kind = "error" THEN scWire ELSE Append(scWire, "exit")
            /\ scPc' = "stop"
            /\ tdPc' = "cancel"
            /\ UNCHANGED scExit
    /\ UNCHANGED <<registered, lang, bodyRaised, child, childIgnoresTerm, desc, descIgnoresTerm,
                   signalLog, closed>>
    /\ UNCHANGED <<rpcVars, syncVars, wireVars, respVars, docVars, readyVars, inVars, faultVars, frameVars>>

\* stop() has returned: the scope is left, by the body's exception if it raised.
ScExit ==
    /\ scPc = "stop"
    /\ tdPc = "done"
    /\ scPc' = "exited"
    /\ scExit' = IF bodyRaised THEN "exception" ELSE "normal"
    /\ UNCHANGED <<registered, lang, bodyRaised, scWire, child, childIgnoresTerm, desc,
                   descIgnoresTerm, tdPc, signalLog, closed>>
    /\ UNCHANGED <<rpcVars, syncVars, wireVars, respVars, docVars, readyVars, inVars, faultVars, frameVars>>

\* ------------------------------------------------------------- SpecScope
\* A language server object of any module, with any process tree below it.
InitScope ==
    /\ RpcInit
    /\ \E l \in Langs, ct \in BOOLEAN, dt \in [Descs -> BOOLEAN] : ScopeInit(l, ct, dt)
    /\ FacadeInit
    /\ IdleWire
    /\ IdleResponse
    /\ IdleDoc
    /\ ReadyInit
    /\ IdleInbound
    /\ IdleFrame

NextScope ==
    \/ ScRegister
    \/ ScSpawn
    \/ \E kind \in {"ok", "mismatch", "error"} : ScInitReply(kind)
    \/ ScInitTimeout
    \/ \E quiescent \in BOOLEAN : ServerStatus(quiescent)
    \/ \E serviceReady \in BOOLEAN : LanguageStatus(serviceReady)
    \/ ScBodyReturns
    \/ ScBodyRaises
    \/ \E kind \in {"ok", "error"} : ScShutdownReply(kind)
    \/ ScExit
    \/ TdCancelTasks
    \/ TdCleanup
    \/ TdTermExited
    \/ TdTermTimeout
    \/ TdKillWaited
    \/ TdSleepEnd
    \/ \E d \in Descs : Fork(d)
    \/ ChildExit
    \/ ChildReap
    \/ \E d \in Descs : DescExit(d)

SpecScope == InitScope /\ [][NextScope]_vars

\* ==================================================== the blocking facade
\* The facade runs the async core on one background event loop; a blocking query
\* submits its coroutine to the loop and waits for it on the calling thread, for at
\* most the Session's timeout. Time is counted in units; a query's work takes `work`
\* units of the loop's time, and either awaits (the loop runs other coroutines
\* meanwhile) or blocks the loop (time.sleep in a coroutine).

SyncFinished(q) == syncCall[q].pc \in {"returned", "timedout"}

\* The coroutines the loop still has to run.
Running == {q \in SyncCalls : syncCall[q].left > 0}

\* The coroutine that holds the loop, if one blocks it: the oldest blocking one.
Blockers == {q \in Running : syncCall[q].kind = "block"}
Progressing ==
    IF Blockers = {} THEN Running
    ELSE {q \in Blockers : \A r \in Blockers : q <= r}

\* The wait of the calling thread is over when the Session's timeout has passed.
Expired_Never(q) == FALSE
Expired(q) == syncCall[q].waited >= SyncTimeout

\* Entering the facade's start_server scope starts the background loop (and, on it,
\* the async scope: spawn and handshake).
SyncEnter ==
    /\ syncScope = "new"
    /\ syncScope' = "entered"
    /\ loopAlive' = TRUE
    /\ UNCHANGED syncCall
    /\ UNCHANGED <<rpcVars, lifeVars, wireVars, respVars, docVars, readyVars, inVars, frameVars>>

\* Leaving the scope (between two blocking queries: the calling thread is the one
\* that makes them) tears the session down and stops the loop.
SyncLeave ==
    /\ syncScope = "entered"
    /\ \A q \in SyncCalls : syncCall[q].pc # "waiting"
    /\ syncScope' = "left"
    /\ loopAlive' = FALSE
    /\ UNCHANGED syncCall
    /\ UNCHANGED <<rpcVars, lifeVars, wireVars, respVars, docVars, readyVars, inVars, frameVars>>

\* The calling thread makes blocking query q (its calls are sequential): the
\* coroutine is submitted to the loop and the thread starts to wait.
SyncSubmit(q, kind, w) ==
    /\ syncScope = "entered"
    /\ loopAlive
    /\ syncCall[q].pc = "idle"
    /\ \A r \in SyncCalls : r < q => SyncFinished(r)
    /\ syncCall' = [syncCall EXCEPT ![q] =
                      [pc |-> "waiting", kind |-> kind, work |-> w, left |-> w,
                       waited |-> 0, undone |-> 0]]
    /\ UNCHANGED <<syncScope, loopAlive>>
    /\ UNCHANGED <<rpcVars, lifeVars, wireVars, respVars, docVars, readyVars, inVars, frameVars>>

\* A unit of time passes: the loop runs its coroutines, the waiting thread waits. No
\* time passes while the waiting thread has its result or its timeout to take.
Tick ==
    /\ loopAlive
    /\ Running # {}
    /\ \A q \in SyncCalls :
          syncCall[q].pc = "waiting" => (syncCall[q].left > 0 /\ ~Expired(q))
    /\ syncCall' = [q \in SyncCalls |->
                      [syncCall[q] EXCEPT
                          !.left = IF q \in Progressing THEN @ - 1 ELSE @,
                          !.waited = IF syncCall[q].pc = "waiting" THEN @ + 1 ELSE @]]
    /\ UNCHANGED <<syncScope, loopAlive>>
    /\ UNCHANGED <<rpcVars, lifeVars, wireVars, respVars, docVars, readyVars, inVars, frameVars>>

\* The coroutine is done: the blocking query returns its result.
SyncReturn(q) ==
    /\ syncCall[q].pc = "waiting"
    /\ syncCall[q].left = 0
    /\ syncCall' = [syncCall EXCEPT ![q].pc = "returned"]
    /\ UNCHANGED <<syncScope, loopAlive>>
    /\ UNCHANGED <<rpcVars, lifeVars, wireVars, respVars, docVars, readyVars, inVars, frameVars>>

\* The wait is over and the coroutine is not done: the blocking query raises a
\* timeout error on the calling thread. The coroutine and the loop go on.
SyncRaiseTimeout(q) ==
    /\ syncCall[q].pc = "waiting"
    /\ syncCall[q].left > 0
    /\ Expired(q)
    /\ syncCall' = [syncCall EXCEPT ![q].pc = "timedout",
                                    ![q].undone = syncCall[q].left]
    /\ UNCHANGED <<syncScope, loopAlive>>
    /\ UNCHANGED <<rpcVars, lifeVars, wireVars, respVars, docVars, readyVars, inVars, frameVars>>

\* -------------------------------------------------------------- SpecSync
NextSync ==
    \/ SyncEnter
    \/ SyncLeave
    \/ \E q \in SyncCalls, kind \in {"await", "block"}, w \in 1..MaxWork :
          SyncSubmit(q, kind, w)
    \/ Tick
    \/ \E q \in SyncCalls : SyncReturn(q)
    \/ \E q \in SyncCalls : SyncRaiseTimeout(q)

SpecSync == Init /\ [][NextSync]_vars

\* ====================================== the transport: frames and dispatch
\* What the child reads on its stdin, segment by segment, and how inbound
\* notifications and requests are dispatched, for a handler whose start() is over.

\* The state after start(): the process is set and the two read loops are created.
RpcStarted ==
    /\ process = "running"
    /\ request_id = 1
    /\ handlers = [i \in Ids |-> NoCall]
    /\ call = [c \in CallIds |-> NewRequest]
    /\ received_shutdown = FALSE
    /\ tasks = << [NewTask("run_forever", NoMsg) EXCEPT !.pc = "running"],
                  [NewTask("run_forever_stderr", NoMsg) EXCEPT !.pc = "running"] >>
    /\ stdin = <<>>
    /\ childEdits = 0
    /\ stdoutQ = <<>>
    /\ stdoutEof = FALSE
    /\ stdoutException = FALSE
    /\ sdPc = "idle"
    /\ stopPc = "idle"
    /\ notifsSent = 0
    /\ replies = [i \in Ids |-> NoMsg]
    /\ processed = {}
    /\ allocLog = <<>>

\* make_response / make_error_response: the payload of the answer to request rid.
make_response(rid) == [type |-> "response", method |-> "", id |-> rid]
make_error_response(rid) == [type |-> "error_response", method |-> "", id |-> rid]

\* create_message(payload): the three segments of a frame. k names the send the
\* frame belongs to (its place in `issued`).
create_message(payload, k) ==
    << [seg |-> "Content-Length", payload |-> payload, k |-> k],
       [seg |-> "Content-Type", payload |-> payload, k |-> k],
       [seg |-> "body", payload |-> payload, k |-> k] >>

\* self.process.stdin.writelines(msg), skipped when there is no process.
WriteLines(payload, k) ==
    IF process = "running" THEN wire \o create_message(payload, k) ELSE wire

\* send_response and send_error_response do not write: they create a task that runs
\* _send_payload. send_notification writes at once (_send_payload_sync).
WrittenByTask_Notifications(type) == type \in {"response", "error_response", "notification"}
WrittenByTask(type) == type \in {"response", "error_response"}

\* The body a task carries, for the payload of a send and back.
AsMsg(payload) == [type |-> payload.type, id |-> payload.id, kind |-> payload.method, val |-> 0]
AsPayload(msg) == [type |-> msg.type, method |-> msg.kind, id |-> msg.id]

\* A send is called with payload p: what it does to the wire and to the tasks ts.
WireAfterSend(p) ==
    IF WrittenByTask(p.type) THEN wire ELSE WriteLines(p, Len(issued) + 1)
TasksAfterSend(ts, p) ==
    IF WrittenByTask(p.type) THEN Append(ts, NewTask("send_payload", AsMsg(p))) ELSE ts

\* The place in `issued` of the send whose payload a task writes.
IssuedAs(p) == CHOOSE k \in 1..Len(issued) : issued[k] = p

\* A caller calls send_request: the frame is written before the first suspension.
WireRequest(c) ==
    /\ c # SD
    /\ \A d \in 1..(c - 1) : call[d].pc # "idle"
    /\ SendRequestBegin(c)
    /\ issued' = Append(issued, make_request(MethodOf(c), request_id))
    /\ wire' = WriteLines(make_request(MethodOf(c), request_id), Len(issued) + 1)
    /\ UNCHANGED <<process, received_shutdown, tasks, stdoutQ, stdoutEof,
                   stdoutException, sdPc, stopPc, notifsSent, replies, processed,
                   childEdits, arrived>>
    /\ UNCHANGED <<lifeVars, syncVars, respVars, docVars, readyVars, inVars, frameVars>>

\* A caller edits a document: send_notification("textDocument/didChange").
WireNotification ==
    /\ notifsSent < NumNotifs
    /\ notifsSent' = notifsSent + 1
    /\ LET p == make_notification("textDocument/didChange") IN
         /\ issued' = Append(issued, p)
         /\ wire' = WireAfterSend(p)
         /\ tasks' = TasksAfterSend(tasks, p)
         /\ stdin' = IF WrittenByTask(p.type) THEN stdin ELSE WritePayload(p)
         /\ childEdits' = IF WrittenByTask(p.type) THEN childEdits ELSE WriteEdit(p)
    /\ UNCHANGED <<process, request_id, handlers, call, received_shutdown, stdoutQ,
                   stdoutEof, stdoutException, sdPc, stopPc, replies, processed,
                   allocLog, arrived>>
    /\ UNCHANGED <<lifeVars, syncVars, respVars, docVars, readyVars, inVars, frameVars>>

\* The server sends a notification or a request of its own.
ServerSends(type) ==
    /\ arrived < NumInbound
    /\ arrived' = arrived + 1
    /\ stdoutQ' = Append(stdoutQ, [type |-> type, id |-> arrived + 1, kind |-> "", val |-> 0])
    /\ UNCHANGED <<process, request_id, handlers, call, received_shutdown, tasks, stdin,
                   stdoutEof, stdoutException, sdPc, stopPc, notifsSent, replies,
                   processed, allocLog, childEdits, wire, issued>>
    /\ UNCHANGED <<lifeVars, syncVars, respVars, docVars, readyVars, inVars, frameVars>>

\* What the end of a handler sends: nothing for a notification; for a request the
\* response when the handler returned, the error response when there is no handler
\* (MethodNotFound) or when it raised.
Answer(msg, how) ==
    IF how = "returns" THEN make_response(msg.id) ELSE make_error_response(msg.id)

HandlerEnds(t, how) ==
    LET msg == tasks[t].msg
        ended == [tasks EXCEPT ![t] = Done(tasks[t])] IN
    IF msg.type = "request"
    THEN /\ issued' = Append(issued, Answer(msg, how))
         /\ wire' = WireAfterSend(Answer(msg, how))
         /\ tasks' = TasksAfterSend(ended, Answer(msg, how))
    ELSE /\ tasks' = ended
         /\ UNCHANGED <<issued, wire>>

\* A _handle_body task starts: _receive_payload -> _notification_handler or
\* _request_handler. There is no handler for the method ("unhandled"), or the handler
\* returns or raises without suspending, or it suspends at an await.
HandlerStarts(t, how) ==
    /\ t \in 1..Len(tasks)
    /\ tasks[t].kind = "handle_body"
    /\ tasks[t].pc = "new"
    /\ tasks[t].msg.type \in {"notification", "request"}
    /\ FirstNew(t)
    /\ IF how = "suspends"
       THEN /\ tasks' = [tasks EXCEPT ![t].pc = "awaiting"]
            /\ UNCHANGED <<issued, wire>>
       ELSE HandlerEnds(t, how)
    /\ UNCHANGED <<process, request_id, handlers, call, received_shutdown, stdin,
                   stdoutQ, stdoutEof, stdoutException, sdPc, stopPc, notifsSent,
                   replies, processed, allocLog, childEdits, arrived>>
    /\ UNCHANGED <<lifeVars, syncVars, respVars, docVars, readyVars, inVars, frameVars>>

\* What the suspended handler awaited is there: it runs to its end.
HandlerResumes(t, how) ==
    /\ t \in 1..Len(tasks)
    /\ tasks[t].pc = "awaiting"
    /\ HandlerEnds(t, how)
    /\ UNCHANGED <<process, request_id, handlers, call, received_shutdown, stdin,
                   stdoutQ, stdoutEof, stdoutException, sdPc, stopPc, notifsSent,
                   replies, processed, allocLog, childEdits, arrived>>
    /\ UNCHANGED <<lifeVars, syncVars, respVars, docVars, readyVars, inVars, frameVars>>

\* A task created by a send runs _send_payload: writelines, then drain.
SendPayloadTask(t) ==
    /\ t \in 1..Len(tasks)
    /\ tasks[t].kind = "send_payload"
    /\ tasks[t].pc = "new"
    /\ FirstNew(t)
    /\ wire' = WriteLines(AsPayload(tasks[t].msg), IssuedAs(AsPayload(tasks[t].msg)))
    /\ stdin' = WritePayload(AsPayload(tasks[t].msg))
    /\ tasks' = [tasks EXCEPT ![t] = Done(tasks[t])]
    /\ UNCHANGED <<process, request_id, handlers, call, received_shutdown, stdoutQ,
                   stdoutEof, stdoutException, sdPc, stopPc, notifsSent, replies,
                   processed, allocLog, childEdits, issued, arrived>>
    /\ UNCHANGED <<lifeVars, syncVars, respVars, docVars, readyVars, inVars, frameVars>>

\* -------------------------------------------------------------- SpecWire
InitWire ==
    /\ RpcStarted
    /\ ScopeInit("gopls", FALSE, [d \in Descs |-> FALSE])
    /\ FacadeInit
    /\ WireInit
    /\ IdleResponse
    /\ IdleDoc
    /\ ReadyInit
    /\ IdleInbound
    /\ IdleFrame

\* The outbound side: the sends of the callers and the answers to the server's
\* requests. A handler that suspends answers when it resumes, as if its request
\* had arrived later: the handlers here run to their end when they start.
NextWire ==
    \/ \E c \in CallIds : WireRequest(c)
    \/ WireNotification
    \/ ServerSends("request")
    \/ ReadFrame
    \/ \E t \in 1..Len(tasks), how \in {"unhandled", "returns", "raises"} :
          HandlerStarts(t, how)
    \/ \E t \in 1..Len(tasks) : SendPayloadTask(t)

SpecWire == InitWire /\ [][NextWire]_vars

\* ---------------------------------------------------------- SpecDispatch
\* The inbound side: the server's notifications and requests, their handler tasks
\* (which may suspend) and the answers these send.
NextDispatch ==
    \/ \E type \in {"notification", "request"} : ServerSends(type)
    \/ ReadFrame
    \/ \E t \in 1..Len(tasks), how \in {"unhandled", "returns", "raises", "suspends"} :
          HandlerStarts(t, how)
    \/ \E t \in 1..Len(tasks), how \in {"returns", "raises"} : HandlerResumes(t, how)
    \/ \E t \in 1..Len(tasks) : SendPayloadTask(t)

SpecDispatch == InitWire /\ [][NextDispatch]_vars

\* ---------------------------------------------------------- SpecResponse
\* What send_request gives its caller for the response the read loop hands to
\* _response_handler.

\* The responses a server may send: with or without "result", with or without
\* "error". Result NoneVal is null.
Results == 0..NumResults
Codes == 1..NumCodes
Messages == 0..NumMessages
Responses ==
    { Response(TRUE, r, FALSE, NoDict) : r \in Results }
    \cup { Response(FALSE, NoneVal, TRUE, ErrorDict(c, m, d)) :
              c \in Codes, m \in Messages, d \in BOOLEAN }
    \cup { Response(TRUE, r, TRUE, ErrorDict(c, m, d)) :
              r \in Results, c \in Codes, m \in Messages, d \in BOOLEAN }
    \cup { Response(FALSE, NoneVal, FALSE, NoDict) }

\* Error.from_lsp(d).
from_lsp_CodeLost(d) == Error(InvalidRequest, d.message)
from_lsp(d) == Error(d.code, d.message)

\* Request.on_result(params) and Request.on_error(err).
on_result(req, params) == [req EXCEPT !.result = params]
on_error_Dropped(req, err) == req
on_error(req, err) == [req EXCEPT !.error = err]

\* _response_handler(response), once the request is popped.
ResponseHandler ==
    /\ rqPc = "waiting"
    /\ request' =
         IF response.hasResult /\ ~response.hasError
         THEN on_result(request, response.result)
         ELSE IF ~response.hasResult /\ response.hasError
              THEN on_error(request, from_lsp(response.error))
              ELSE on_error(request, Error(InvalidRequest, 0))
    /\ rqPc' = "notified"
    /\ UNCHANGED <<response, rqOut>>
    /\ UNCHANGED <<rpcVars, lifeVars, syncVars, wireVars, docVars, readyVars, inVars, frameVars>>

\* send_request after cv.wait(): raise request.error when it is an Error ...
SendRequestRaises ==
    /\ rqPc = "notified"
    /\ request.error.isError
    /\ rqOut' = [kind |-> "raised", result |-> NoneVal, error |-> request.error]
    /\ rqPc' = "done"
    /\ UNCHANGED <<response, request>>
    /\ UNCHANGED <<rpcVars, lifeVars, syncVars, wireVars, docVars, readyVars, inVars, frameVars>>

\* ... and return request.result otherwise.
SendRequestReturns ==
    /\ rqPc = "notified"
    /\ ~request.error.isError
    /\ rqOut' = [kind |-> "returned", result |-> request.result, error |-> NoError]
    /\ rqPc' = "done"
    /\ UNCHANGED <<response, request>>
    /\ UNCHANGED <<rpcVars, lifeVars, syncVars, wireVars, docVars, readyVars, inVars, frameVars>>

InitResponse ==
    /\ RpcStarted
    /\ ScopeInit("gopls", FALSE, [d \in Descs |-> FALSE])
    /\ FacadeInit
    /\ IdleWire
    /\ IdleDoc
    /\ ReadyInit
    /\ IdleInbound
    /\ IdleFrame
    /\ \E r \in Responses : ResponseInit(r)

NextResponse ==
    \/ ResponseHandler
    \/ SendRequestRaises
    \/ SendRequestReturns

SpecResponse == InitResponse /\ [][NextResponse]_vars

\* --------------------------------------------------------------- SpecDoc
\* The open-document overlay of the Session: open, close, edit and read.

\* A text is a sequence of characters; the text of every file on disk.
Chars == 1..NumChars
Disk(p) == <<1>>

\* An edit: insert character ch so that pos characters are before it, or delete the
\* character at place pos.
Insert(pos, ch) == [op |-> "insert", pos |-> pos, ch |-> ch]
Delete(pos) == [op |-> "delete", pos |-> pos, ch |-> 0]
EditsOf(text) ==
    { Insert(pos, ch) : pos \in 0..Len(text), ch \in Chars }
    \cup { Delete(pos) : pos \in 1..Len(text) }

\* The text after an edit.
ApplyEdit(text, e) ==
    IF e.op = "insert"
    THEN SubSeq(text, 1, e.pos) \o <<e.ch>> \o SubSeq(text, e.pos + 1, Len(text))
    ELSE SubSeq(text, 1, e.pos - 1) \o SubSeq(text, e.pos + 1, Len(text))

\* The notifications about a document.
DidOpen(text) == [method |-> "textDocument/didOpen", version |-> 0, text |-> text]
DidChange(version) == [method |-> "textDocument/didChange", version |-> version, text |-> <<>>]
DidClose == [method |-> "textDocument/didClose", version |-> 0, text |-> <<>>]

NumSent(p, method) == Cardinality({i \in 1..Len(docSent[p]) : docSent[p][i].method = method})

\* The first increment of the open-count is the one that sends didOpen.
SendsDidOpen_Always(buf) == TRUE
SendsDidOpen(buf) == ~buf.tracked

\* An edit increments the version.
NextVersion_Same(v) == v
NextVersion(v) == v + 1

\* open(path): the first open creates the OpenDocument from the text on disk and
\* sends didOpen; every open increments the open-count.
OpenFile(p) ==
    /\ IF open_file_buffers[p].tracked
       THEN open_file_buffers[p].count < MaxOpens
       ELSE NumSent(p, "textDocument/didOpen") < MaxOpens
    /\ open_file_buffers' =
         [open_file_buffers EXCEPT ![p] =
            IF @.tracked
            THEN [@ EXCEPT !.count = @ + 1]
            ELSE [tracked |-> TRUE, text |-> Disk(p), version |-> 0, count |-> 1]]
    /\ docSent' =
         IF SendsDidOpen(open_file_buffers[p])
         THEN [docSent EXCEPT ![p] = Append(@, DidOpen(Disk(p)))]
         ELSE docSent
    /\ docEdits' = IF open_file_buffers[p].tracked THEN docEdits
                   ELSE [docEdits EXCEPT ![p] = <<>>]
    /\ UNCHANGED <<rpcVars, lifeVars, syncVars, wireVars, respVars, readyVars, inVars, frameVars>>

\* close(path): decrements the open-count; the last decrement sends didClose and
\* destroys the OpenDocument.
CloseFile(p) ==
    /\ open_file_buffers[p].count > 0
    /\ IF open_file_buffers[p].count = 1
       THEN /\ open_file_buffers' = [open_file_buffers EXCEPT ![p] = NoBuffer]
            /\ docSent' = [docSent EXCEPT ![p] = Append(@, DidClose)]
       ELSE /\ open_file_buffers' = [open_file_buffers EXCEPT ![p].count = @ - 1]
            /\ UNCHANGED docSent
    /\ UNCHANGED docEdits
    /\ UNCHANGED <<rpcVars, lifeVars, syncVars, wireVars, respVars, readyVars, inVars, frameVars>>

\* An edit of an open document: it is applied to the overlay, the version is
\* incremented, and didChange is sent with the new version.
EditFile(p, e) ==
    /\ open_file_buffers[p].tracked
    /\ Len(docEdits[p]) < MaxEdits
    /\ e \in EditsOf(open_file_buffers[p].text)
    /\ open_file_buffers' =
         [open_file_buffers EXCEPT ![p].text = ApplyEdit(@, e),
                                   ![p].version = NextVersion(@)]
    /\ docSent' = [docSent EXCEPT
                     ![p] = Append(@, DidChange(NextVersion(open_file_buffers[p].version)))]
    /\ docEdits' = [docEdits EXCEPT ![p] = Append(@, e)]
    /\ UNCHANGED <<rpcVars, lifeVars, syncVars, wireVars, respVars, readyVars, inVars, frameVars>>

\* get_text(path): the overlay.
get_open_file_text(p) == open_file_buffers[p].text

InitDoc ==
    /\ RpcStarted
    /\ ScopeInit("gopls", FALSE, [d \in Descs |-> FALSE])
    /\ FacadeInit
    /\ IdleWire
    /\ IdleResponse
    /\ DocInit
    /\ ReadyInit
    /\ IdleInbound
    /\ IdleFrame

NextDoc ==
    \/ \E p \in Paths : OpenFile(p)
    \/ \E p \in Paths : CloseFile(p)
    \/ \E p \in Paths : \E e \in EditsOf(open_file_buffers[p].text) : EditFile(p, e)

SpecDoc == InitDoc /\ [][NextDoc]_vars

\* -------------------------------------------------------------- SpecEdit
\* Edits by position: insert_text_at_position and delete_text_between_positions
\* on an open document whose text has lines. A caller inserts a text at a position,
\* then deletes from that position up to some position.

\* The newline character, and the texts of at most n characters.
NL == 0
Texts(n) == UNION { [1..k -> Chars \cup {NL}] : k \in 0..n }

\* str.count("\n"), and the place of the last newline of a text (0 if none).
NewlinesIn(text) == Cardinality({i \in 1..Len(text) : text[i] = NL})
LastNewline(text) ==
    LET nls == {i \in 1..Len(text) : text[i] = NL} IN
    IF nls = {} THEN 0 ELSE CHOOSE i \in nls : \A j \in nls : j <= i

\* The number of characters before position (line, col): walk over `line` newlines,
\* then add col.
RECURSIVE WalkLines(_, _, _)
WalkLines(text, idx, line) ==
    IF line = 0 \/ idx >= Len(text) THEN idx
    ELSE WalkLines(text, idx + 1, IF text[idx + 1] = NL THEN line - 1 ELSE line)
IndexOf(text, pos) == WalkLines(text, 0, pos.line) + pos.col

\* The positions of a text: a line it has and a column within that line.
Position(line, col) == [line |-> line, col |-> col]
PositionsOf(text) ==
    { Position(NewlinesIn(SubSeq(text, 1, i)), i - LastNewline(SubSeq(text, 1, i))) :
         i \in 0..Len(text) }

\* The position of the end of txt inserted at pos.
EndPosition_ColumnKept(pos, txt) ==
    Position(pos.line + NewlinesIn(txt), pos.col + Len(txt))
EndPosition(pos, txt) ==
    IF NewlinesIn(txt) > 0
    THEN Position(pos.line + NewlinesIn(txt), Len(txt) - LastNewline(txt))
    ELSE Position(pos.line, pos.col + Len(txt))

\* insert_text_at_position(path, line, col, txt): the overlay gets txt at the
\* position, didChange is sent, and the end position is returned.
InsertTextAtPosition(p, pos, txt) ==
    /\ open_file_buffers[p].tracked
    /\ docEdits[p] = <<>>
    /\ pos \in PositionsOf(open_file_buffers[p].text)
    /\ LET text == open_file_buffers[p].text
           idx == IndexOf(text, pos) IN
         /\ open_file_buffers' =
              [open_file_buffers EXCEPT
                 ![p].text = SubSeq(text, 1, idx) \o txt \o SubSeq(text, idx + 1, Len(text)),
                 ![p].version = NextVersion(@)]
         /\ docEdits' = [docEdits EXCEPT ![p] =
                            <<[op |-> "insert", before |-> text, from |-> pos, txt |-> txt,
                               to |-> EndPosition(pos, txt)]>>]
    /\ docSent' = [docSent EXCEPT
                     ![p] = Append(@, DidChange(NextVersion(open_file_buffers[p].version)))]
    /\ UNCHANGED <<rpcVars, lifeVars, syncVars, wireVars, respVars, readyVars, inVars, frameVars>>

\* delete_text_between_positions(path, start, end): the overlay loses the text
\* between the two positions, didChange is sent, and the deleted text is returned.
DeleteTextBetweenPositions(p, start, end) ==
    /\ open_file_buffers[p].tracked
    /\ Len(docEdits[p]) = 1
    /\ LET text == open_file_buffers[p].text
           a == IndexOf(text, start)
           b == IndexOf(text, end) IN
         /\ a <= b
         /\ b <= Len(text)
         /\ open_file_buffers' =
              [open_file_buffers EXCEPT
                 ![p].text = SubSeq(text, 1, a) \o SubSeq(text, b + 1, Len(text)),
                 ![p].version = NextVersion(@)]
         /\ docEdits' = [docEdits EXCEPT ![p] =
                            Append(@, [op |-> "delete", before |-> text, from |-> start,
                                       txt |-> SubSeq(text, a + 1, b), to |-> end])]
    /\ docSent' = [docSent EXCEPT
                     ![p] = Append(@, DidChange(NextVersion(open_file_buffers[p].version)))]
    /\ UNCHANGED <<rpcVars, lifeVars, syncVars, wireVars, respVars, readyVars, inVars, frameVars>>

\* A document just opened, with any text.
InitEdit ==
    /\ RpcStarted
    /\ ScopeInit("gopls", FALSE, [d \in Descs |-> FALSE])
    /\ FacadeInit
    /\ IdleWire
    /\ IdleResponse
    /\ ReadyInit
    /\ IdleInbound
    /\ IdleFrame
    /\ \E text \in Texts(MaxText) :
          /\ open_file_buffers =
                [p \in Paths |-> [tracked |-> TRUE, text |-> text, version |-> 0, count |-> 1]]
          /\ docSent = [p \in Paths |-> <<DidOpen(text)>>]
    /\ docEdits = [p \in Paths |-> <<>>]

NextEdit ==
    \/ \E p \in Paths : \E pos \in PositionsOf(open_file_buffers[p].text) :
          \E txt \in Texts(MaxText) \ {<<>>} : InsertTextAtPosition(p, pos, txt)
    \/ \E p \in Paths : \E end \in PositionsOf(open_file_buffers[p].text) :
          /\ docEdits[p] # <<>>
          /\ DeleteTextBetweenPositions(p, docEdits[p][1].from, end)

SpecEdit == InitEdit /\ [][NextEdit]_vars

\* ----------------------------------------------------------- SpecInbound
\* One request or notification of the server, from the start of its _handle_body
\* task to the writes it causes, for every handler that may be registered for it.

\* make_response(request_id, params) and make_error_response(request_id, err), with
\* what they carry; Error.to_lsp().
to_lsp_NoMessage(err) == [code |-> err.code, message |-> 0]
to_lsp(err) == [code |-> err.code, message |-> err.message]
ResponsePayload_OtherId(rid, params) == [type |-> "response", id |-> 0, result |-> params, error |-> to_lsp(NoError)]
ResponsePayload(rid, params) == [type |-> "response", id |-> rid, result |-> params, error |-> to_lsp(NoError)]
ErrorPayload(rid, err) == [type |-> "error_response", id |-> rid, result |-> NoneVal, error |-> to_lsp(err)]

\* _request_handler: what it sends for the request req when h is registered.
RequestAnswers(req, h) ==
    IF h.kind = "none"
    THEN <<ErrorPayload(req.id, Error(MethodNotFound, NotHandledMessage))>>
    ELSE IF h.kind = "returns" THEN <<ResponsePayload(req.id, h.result)>>
    ELSE IF h.kind = "raises_error" THEN <<ErrorPayload(req.id, Error(h.code, h.message))>>
    ELSE IF h.kind = "raises" THEN <<ErrorPayload(req.id, Error(InternalError, h.message))>>
    ELSE <<>>

\* The task of an inbound request runs: _receive_payload -> _request_handler; the
\* answer is handed to a new task (send_response / send_error_response).
HandleRequest ==
    /\ inPc = "new"
    /\ inbound.type = "request"
    /\ sendTasks' = sendTasks \o RequestAnswers(inbound, on_handlers)
    /\ inPc' = "done"
    /\ UNCHANGED <<logger, inbound, on_handlers, written, logged>>
    /\ UNCHANGED <<rpcVars, lifeVars, syncVars, wireVars, respVars, docVars, readyVars, frameVars>>

\* _notification_handler logs the exception of a handler when the shutdown reply has
\* not been received and there is a logger.
LogsException_WithoutLogger(shutdown, lg) == ~shutdown
LogsException(shutdown, lg) == ~shutdown /\ lg

\* The task of an inbound notification runs: _receive_payload -> _notification_handler.
HandleNotification ==
    /\ inPc = "new"
    /\ inbound.type = "notification"
    /\ logged' =
         IF on_handlers.kind = "none" THEN Log(logger, [what |-> "unhandled", message |-> 0])
         ELSE IF on_handlers.kind \in {"raises", "raises_error"}
                 /\ LogsException(received_shutdown, logger)
              THEN Append(logged, [what |-> "error", message |-> on_handlers.message])
              ELSE logged
    /\ inPc' = "done"
    /\ UNCHANGED <<logger, inbound, on_handlers, sendTasks, written>>
    /\ UNCHANGED <<rpcVars, lifeVars, syncVars, wireVars, respVars, docVars, readyVars, frameVars>>

\* A task created by send_response / send_error_response runs _send_payload.
RunSendTask ==
    /\ sendTasks # <<>>
    /\ written' = IF process = "running" THEN Append(written, Head(sendTasks)) ELSE written
    /\ sendTasks' = Tail(sendTasks)
    /\ UNCHANGED <<logger, inbound, on_handlers, inPc, logged>>
    /\ UNCHANGED <<rpcVars, lifeVars, syncVars, wireVars, respVars, docVars, readyVars, frameVars>>

\* shutdown() gets the reply to its request before the task of the message runs.
ShutdownReplyFirst ==
    /\ inPc = "new"
    /\ ~received_shutdown
    /\ received_shutdown' = TRUE
    /\ UNCHANGED <<process, request_id, handlers, call, tasks, stdin, childEdits, stdoutQ,
                   stdoutEof, stdoutException, sdPc, stopPc, notifsSent, replies,
                   processed, allocLog>>
    /\ UNCHANGED <<lifeVars, syncVars, wireVars, respVars, docVars, readyVars, frameVars>>
    /\ UNCHANGED inVars

\* The handlers that may be registered, and the messages the server may send.
Handlers ==
    { Handler("none", NoneVal, 0, 0), Handler("cancelled", NoneVal, 0, 0) }
    \cup { Handler("returns", r, 0, 0) : r \in Results }
    \cup { Handler("raises_error", NoneVal, c, m) : c \in Codes, m \in Messages }
    \cup { Handler("raises", NoneVal, 0, m) : m \in Messages }
InboundMessages ==
    { [type |-> "request", method |-> "workspace/configuration", id |-> i] : i \in 1..NumInbound }
    \cup { [type |-> "notification", method |-> "$/progress", id |-> 0] }

InitInbound ==
    /\ RpcStarted
    /\ ScopeInit("gopls", FALSE, [d \in Descs |-> FALSE])
    /\ FacadeInit
    /\ IdleWire
    /\ IdleResponse
    /\ IdleDoc
    /\ ReadyInit
    /\ \E lg \in BOOLEAN, msg \in InboundMessages, h \in Handlers : InboundInit(lg, msg, h)
    /\ IdleFrame

NextInbound ==
    \/ HandleRequest
    \/ HandleNotification
    \/ RunSendTask
    \/ ShutdownReplyFirst

SpecInbound == InitInbound /\ [][NextInbound]_vars

\* ------------------------------------------------------------- SpecWake
\* The engine's requests and their responses, without timeouts, shutdown() and
\* stop(), under the scheduling of the event loop: a runnable coroutine or task
\* runs eventually, the child reads its stdin (drain() returns), and a coroutine
\* that was notified resumes.
\* The two loops and a task for each response to a request.
TaskIds == 1..(2 + Cardinality(Ids))

NextWake ==
    \/ Start
    \/ \E c \in CallIds : SendRequest(c)
    \/ \E c \in CallIds : DrainDone(c)
    \/ \E c \in CallIds : Wake(c)
    \/ SendNotification
    \/ \E i \in Ids, kind \in {"result", "error"} : ServerReply(i, kind)
    \/ ServerExit
    \/ ReadFrame
    \/ ReadLoopEnd
    \/ \E t \in 1..Len(tasks) : HandleBody(t)
    \/ \E t \in 1..Len(tasks) : HandlerAcquire(t)

SpecWake ==
    /\ Init
    /\ [][NextWake]_vars
    /\ \A c \in CallIds : WF_vars(DrainDone(c)) /\ WF_vars(Wake(c))
    /\ \A t \in TaskIds : WF_vars(HandleBody(t)) /\ WF_vars(HandlerAcquire(t))

\* ------------------------------------------- responses nobody waits for
\* The responses nobody waits for that the child writes.
MaxStray == 1

\* The handler of the engine's specification, with a logger or without one.
InitStray ==
    /\ RpcInit
    /\ ScopeInit("gopls", FALSE, [d \in Descs |-> FALSE])
    /\ FacadeInit
    /\ IdleWire
    /\ IdleResponse
    /\ IdleDoc
    /\ ReadyInit
    /\ \E lg \in BOOLEAN :
         InboundInit(lg, [type |-> "notification", method |-> "$/progress", id |-> 0],
                     Handler("none", NoneVal, 0, 0))
    /\ IdleFrame

\* An id no request carries: next_id counts from 1.
NeverSent == 0

\* The child writes a response nobody waits for: a second response to an id it has
\* answered, or a response to an id that was never sent.
ServerStray(i, kind) ==
    /\ process = "running"
    /\ ~stdoutEof
    /\ i \in Replied \cup {NeverSent}
    /\ Len(tasks) + Len(stdoutQ) < 2 + Cardinality(Replied) + MaxStray
    /\ stdoutQ' = Append(stdoutQ, [type |-> "response", id |-> i, kind |-> kind,
                                   val |-> ReplyPayload(i)])
    /\ UNCHANGED <<process, request_id, handlers, call, received_shutdown, tasks, stdin,
                   stdoutEof, stdoutException, sdPc, stopPc, notifsSent, processed,
                   allocLog, childEdits, replies>>
    /\ UNCHANGED <<lifeVars, syncVars, wireVars, respVars, docVars, readyVars, inVars, frameVars>>

NextStray ==
    \/ Start
    \/ \E c \in CallIds : SendRequest(c)
    \/ \E c \in CallIds : DrainDone(c)
    \/ \E c \in CallIds : Wake(c)
    \/ \E i \in Ids, kind \in {"result", "error"} : ServerReply(i, kind)
    \/ ServerExit
    \/ ReadFrame
    \/ ReadLoopEnd
    \/ \E t \in 1..Len(tasks) : HandleBody(t)
    \/ \E t \in 1..Len(tasks) : HandlerAcquire(t)
    \/ \E i \in Ids \cup {NeverSent}, kind \in {"result", "error"} : ServerStray(i, kind)

SpecStray == InitStray /\ [][NextStray]_vars

\* ============================================== framing and the read loop
\* The bytes of a stream are symbols: the header name with its colon and blank, a
\* decimal number, the line end, the Content-Type header, and the bytes of a body.
CLH == "Content-Length: "
CTH == "Content-Type: application/vscode-jsonrpc; charset=utf-8"
CRLF == "CRLF"
DecimalStrings == <<"0", "1", "2", "3", "4", "5", "6", "7", "8", "9">>

\* f"{n}" and int(value).
Decimal(n) == DecimalStrings[n + 1]
IsDecimal(sym) == \E i \in 1..Len(DecimalStrings) : DecimalStrings[i] = sym
ParseInt(sym) == (CHOOSE i \in 1..Len(DecimalStrings) : DecimalStrings[i] = sym) - 1

\* The characters of a payload's text: one that UTF-8 encodes in one byte and one
\* that it encodes in two.
Ascii == "a"
TwoByte == "U+00E9"
Payloads == {[method |-> <<Ascii>>], [method |-> <<TwoByte>>]}

\* str.encode("utf-8") and bytes.decode("utf-8").
RECURSIVE Encode(_)
Encode(text) ==
    IF text = <<>> THEN <<>>
    ELSE (IF Head(text) = TwoByte THEN <<"c3", "a9">> ELSE <<Head(text)>>)
         \o Encode(Tail(text))

RECURSIVE Decode(_)
Decode(bytes) ==
    IF bytes = <<>> THEN [ok |-> TRUE, text |-> <<>>]
    ELSE IF Head(bytes) = "c3"
    THEN IF Len(bytes) >= 2 /\ bytes[2] = "a9"
         THEN LET r == Decode(Tail(Tail(bytes)))
              IN  [ok |-> r.ok, text |-> <<TwoByte>> \o r.text]
         ELSE [ok |-> FALSE, text |-> <<>>]
    ELSE IF Head(bytes) = "a9" THEN [ok |-> FALSE, text |-> <<>>]
    ELSE LET r == Decode(Tail(bytes))
         IN  [ok |-> r.ok, text |-> <<Head(bytes)>> \o r.text]

\* json.dumps(payload, separators=(",", ":")) and json.loads(body): an object, a
\* value that is no object ("other"), or no JSON at all.
Dumps(payload) == <<"{">> \o payload.method \o <<"}">>
Loads(body) ==
    LET d == Decode(body)
        n == Len(d.text)
    IN  IF ~d.ok THEN [kind |-> "UnicodeDecodeError", method |-> <<>>]
        ELSE IF n >= 2 /\ d.text[1] = "{" /\ d.text[n] = "}"
                /\ \A i \in 2..(n - 1) : d.text[i] \in {Ascii, TwoByte}
        THEN [kind |-> "object", method |-> SubSeq(d.text, 2, n - 1)]
        ELSE IF d.text = <<"[", "]">> THEN [kind |-> "other", method |-> <<>>]
        ELSE [kind |-> "JSONDecodeError", method |-> <<>>]

\* create_message(payload), byte by byte: the Content-Length is len(body), the
\* length of the encoded body.
Body(payload) == Encode(Dumps(payload))
AnnouncedLength_Chars(payload) == Len(Dumps(payload))
AnnouncedLength(payload) == Len(Body(payload))
Header(n) == <<CLH, Decimal(n), CRLF, CTH, CRLF, CRLF>>
MessageBytes(payload) == Header(AnnouncedLength(payload)) \o Body(payload)

\* What a server may write instead: a header block without Content-Length, a
\* Content-Length that is no number, a body that is no JSON or no JSON object, and
\* an empty frame.
FrameKinds == {"ok", "nolen", "badlen", "badjson", "notobject", "empty"}
FrameOfKind(kind, payload) ==
    [kind |-> kind,
     body |-> CASE kind = "badjson" -> <<"{">>
                [] kind = "notobject" -> <<"[", "]">>
                [] kind = "empty" -> <<>>
                [] OTHER -> Body(payload)]
FrameBytes(f) ==
    CASE f.kind = "ok" -> MessageBytes([method |-> Loads(f.body).method])
      [] f.kind = "nolen" -> <<CTH, CRLF, CRLF>> \o f.body
      [] f.kind = "badlen" -> <<CLH, "x", CRLF, CTH, CRLF, CRLF>> \o f.body
      [] OTHER -> Header(Len(f.body)) \o f.body

RECURSIVE StreamOf(_)
StreamOf(fs) == IF fs = <<>> THEN <<>> ELSE FrameBytes(Head(fs)) \o StreamOf(Tail(fs))

\* StreamReader.readline(): the bytes up to and including the first line end; at
\* the end of the stream what is left (`short`).
ReadLine(s) ==
    LET ends == {i \in 1..Len(s) : s[i] = CRLF}
    IN  IF ends = {} THEN [line |-> s, rest |-> <<>>, short |-> TRUE]
        ELSE LET k == CHOOSE i \in ends : \A j \in ends : i <= j
             IN  [line |-> SubSeq(s, 1, k), rest |-> SubSeq(s, k + 1, Len(s)),
                  short |-> FALSE]

\* bytes.strip(): without the white space at both ends.
RECURSIVE Strip(_)
Strip(line) ==
    IF line = <<>> THEN <<>>
    ELSE IF Head(line) = CRLF THEN Strip(Tail(line))
    ELSE IF line[Len(line)] = CRLF THEN Strip(SubSeq(line, 1, Len(line) - 1))
    ELSE line

\* content_length(line): the number, None, or ValueError.
content_length(line) ==
    IF line # <<>> /\ Head(line) = CLH
    THEN LET value == Strip(Tail(line))
         IN  IF Len(value) = 1 /\ IsDecimal(value[1])
             THEN [error |-> FALSE, n |-> ParseInt(value[1])]
             ELSE [error |-> TRUE, n |-> NoLength]
    ELSE [error |-> FALSE, n |-> NoLength]

\* `except ValueError: continue` and `if num_bytes is None: continue`.
Skipped_Falsy(cl) == cl.error \/ cl.n = NoLength \/ cl.n = 0
Skipped(cl) == cl.error \/ cl.n = NoLength

\* stdout.at_eof(): the end was fed and the buffer is empty.
AtEof == streamEnd = "eof" /\ stream = <<>>

\* A read that needs bytes behind the end of a reset stream raises
\* ConnectionResetError (or BrokenPipeError), which run_forever catches.
ReadRaises(short) == short /\ streamEnd = "reset"

\* run_forever at the top of its loop: leave it at_eof(); else read a line, and go
\* on to the rest of the header block if the line is a Content-Length header.
RfTop ==
    /\ rfPc = "top"
    /\ IF AtEof \/ ReadRaises(ReadLine(stream).short)
       THEN /\ rfPc' = "returned"
            /\ UNCHANGED <<stream, num_bytes>>
       ELSE LET r == ReadLine(stream)
                cl == content_length(r.line)
            IN  /\ stream' = r.rest
                /\ IF r.line = <<>> \/ Skipped(cl)
                   THEN UNCHANGED <<rfPc, num_bytes>>
                   ELSE /\ rfPc' = "header"
                        /\ num_bytes' = cl.n
    /\ UNCHANGED <<frames, streamLen, streamEnd, deframed, handled, dispatched, frameLog>>
    /\ UNCHANGED <<rpcVars, lifeVars, syncVars, wireVars, respVars, docVars, readyVars, inVars>>

\* `while line and line.strip(): line = await readline()`: one more line of the
\* header block; an empty read (EOF) restarts the outer loop, a blank line ends
\* the block.
RfHeaderLine ==
    /\ rfPc = "header"
    /\ IF ReadRaises(ReadLine(stream).short)
       THEN /\ rfPc' = "returned"
            /\ UNCHANGED stream
       ELSE LET r == ReadLine(stream)
            IN  /\ stream' = r.rest
                /\ rfPc' = IF r.line = <<>> THEN "top"
                           ELSE IF Strip(r.line) = <<>> THEN "body"
                           ELSE "header"
    /\ UNCHANGED <<frames, streamLen, streamEnd, num_bytes, deframed, handled, dispatched, frameLog>>
    /\ UNCHANGED <<rpcVars, lifeVars, syncVars, wireVars, respVars, docVars, readyVars, inVars>>

\* readexactly(num_bytes), then create_task(_handle_body(body)). At EOF before
\* num_bytes bytes readexactly raises IncompleteReadError, which nothing catches.
RfReadBody ==
    /\ rfPc = "body"
    /\ IF Len(stream) >= num_bytes
       THEN /\ deframed' = Append(deframed, SubSeq(stream, 1, num_bytes))
            /\ stream' = SubSeq(stream, num_bytes + 1, Len(stream))
            /\ rfPc' = "top"
       ELSE /\ rfPc' = IF ReadRaises(TRUE) THEN "returned" ELSE "raised"
            /\ UNCHANGED <<stream, deframed>>
    /\ UNCHANGED <<frames, streamLen, streamEnd, num_bytes, handled, dispatched, frameLog>>
    /\ UNCHANGED <<rpcVars, lifeVars, syncVars, wireVars, respVars, docVars, readyVars, inVars>>

\* self._log(message): only a handler that has a logger logs.
FrameLogged(entry) == IF logger THEN Append(frameLog, entry) ELSE frameLog

\* The next _handle_body task runs: json.loads, then _receive_payload. The objects
\* of this model are notifications whose method has a handler, which is invoked; a
\* body that is no JSON, or no object, ends in a _log call.
HandleBodyTask ==
    /\ handled < Len(deframed)
    /\ handled' = handled + 1
    /\ LET payload == Loads(deframed[handled + 1])
       IN  IF payload.kind = "object"
           THEN /\ dispatched' = Append(dispatched, [method |-> payload.method])
                /\ UNCHANGED frameLog
           ELSE /\ frameLog' = FrameLogged(payload.kind)
                /\ UNCHANGED dispatched
    /\ UNCHANGED <<frames, streamLen, stream, streamEnd, rfPc, num_bytes, deframed>>
    /\ UNCHANGED <<rpcVars, lifeVars, syncVars, wireVars, respVars, docVars, readyVars, inVars>>

\* ------------------------------------------------------------ SpecFrame
\* A started handler, with or without a logger, reads what a server wrote: up to
\* MaxFrames frames of any kind, the stream ending after any of its bytes, by EOF
\* or by a reset.
RECURSIVE SeqsUpTo(_, _)
SeqsUpTo(S, n) ==
    IF n = 0 THEN {<<>>}
    ELSE SeqsUpTo(S, n - 1)
         \cup {Append(q, x) : q \in {r \in SeqsUpTo(S, n - 1) : Len(r) = n - 1}, x \in S}

FrameChoices ==
    {FrameOfKind("ok", p) : p \in Payloads}
    \cup {FrameOfKind(k, [method |-> <<Ascii>>]) : k \in FrameKinds \ {"ok"}}

InitFrame ==
    /\ RpcStarted
    /\ ScopeInit("gopls", FALSE, [d \in Descs |-> FALSE])
    /\ FacadeInit
    /\ IdleWire
    /\ IdleResponse
    /\ IdleDoc
    /\ ReadyInit
    /\ \E lg \in BOOLEAN :
          InboundInit(lg, [type |-> "notification", method |-> "$/progress", id |-> 0],
                      Handler("returns", NoneVal, 0, 0))
    /\ \E fs \in SeqsUpTo(FrameChoices, MaxFrames), end \in {"eof", "reset"} :
          \E cut \in 0..Len(StreamOf(fs)) :
             FrameInit(fs, SubSeq(StreamOf(fs), 1, cut), end)

NextFrame ==
    \/ RfTop
    \/ RfHeaderLine
    \/ RfReadBody
    \/ HandleBodyTask

SpecFrame == InitFrame /\ [][NextFrame]_vars

\* ------------------------------------------------------------- SpecStop
\* stop() on a started server whose scope has sent `exit`, over every process tree
\* (its forked processes all ignoring terminate or all obeying it) and every set of
\* at most MaxFaults pipes and of at most MaxFaults processes that raise when they
\* are closed or signalled.
Faulty(S) == {F \in SUBSET S : Cardinality(F) <= MaxFaults}

StopInit(c, ds, ct, dt, cr, sr) ==
    /\ lang = "gopls"
    /\ scPc = "stop"
    /\ scExit = "none"
    /\ bodyRaised = FALSE
    /\ scWire = <<"initialize", "initialized", "shutdown", "exit">>
    /\ child = c
    /\ childIgnoresTerm = ct
    /\ desc = ds
    /\ descIgnoresTerm = dt
    /\ tdPc = "cancel"
    /\ signalLog = <<>>
    /\ closed = <<>>
    /\ closeRaises = cr
    /\ signalRaises = sr
    /\ registered = HandlersOf("gopls")

InitStop ==
    /\ RpcStarted
    /\ \E c \in {"alive", "reaped"}, ds \in [Descs -> {"unborn", "alive"}],
          ct \in BOOLEAN, dt \in BOOLEAN :
          \E cr \in Faulty(Pipes), sr \in Faulty(Descs \cup {TheChild}) :
             StopInit(c, ds, ct, [d \in Descs |-> dt], cr, sr)
    /\ FacadeInit
    /\ IdleWire
    /\ IdleResponse
    /\ IdleDoc
    /\ initResponse = "ok"
    /\ server_ready = TRUE
    /\ completions_available = TRUE
    /\ service_ready_event = FALSE
    /\ IdleInbound
    /\ IdleFrame

NextStop ==
    \/ TdCancelTasks
    \/ TdCleanup
    \/ TdTermExited
    \/ TdTermTimeout
    \/ TdKillWaited
    \/ TdSleepEnd
    \/ ScExit
    \/ \E d \in Descs : Fork(d)
    \/ ChildExit
    \/ ChildReap
    \/ \E d \in Descs : DescExit(d)

SpecStop == InitStop /\ [][NextStop]_vars

\* ------------------------------------------------------------ SpecAgain
\* stop() called again and again on a started server, with notifications and
\* responses sent before the first stop() and after a stop() has returned.
InitAgain ==
    /\ RpcStarted
    /\ \E c \in {"alive", "reaped"}, ds \in [Descs -> {"unborn", "alive"}],
          ct \in BOOLEAN, dt \in BOOLEAN :
             StopInit(c, ds, ct, [d \in Descs |-> dt], {}, {})
    /\ FacadeInit
    /\ IdleWire
    /\ IdleResponse
    /\ IdleDoc
    /\ initResponse = "ok"
    /\ server_ready = TRUE
    /\ completions_available = TRUE
    /\ service_ready_event = FALSE
    /\ IdleInbound
    /\ IdleFrame

\* No stop() is running: none was called yet, or the last one has returned.
StopIdle == (tdPc = "cancel" /\ process = "running") \/ tdPc = "done"

\* stop() is called once more after it has returned.
StopAgain ==
    /\ tdPc = "done"
    /\ tdPc' = "cancel"
    /\ UNCHANGED <<registered, lang, scPc, scExit, bodyRaised, scWire, child, childIgnoresTerm,
                   desc, descIgnoresTerm, signalLog, closed>>
    /\ UNCHANGED <<rpcVars, syncVars, wireVars, respVars, docVars, readyVars, inVars, faultVars, frameVars>>

\* send_response(rid, params): the write is left to a new task of self.tasks.
SendResponse(rid) ==
    /\ StopIdle
    /\ \A i \in 1..Len(sendTasks) : sendTasks[i].id # rid
    /\ \A i \in 1..Len(written) : written[i].id # rid
    /\ sendTasks' = Append(sendTasks, ResponsePayload(rid, NoneVal))
    /\ UNCHANGED <<logger, inbound, on_handlers, inPc, written, logged>>
    /\ UNCHANGED <<rpcVars, lifeVars, syncVars, wireVars, respVars, docVars, readyVars, frameVars>>

NextAgain ==
    \/ NextStop
    \/ StopAgain
    \/ SendNotification
    \/ \E rid \in 1..NumInbound : SendResponse(rid)
    \/ RunSendTask

SpecAgain == InitAgain /\ [][NextAgain]_vars

\* ================================================================== claims
Completed(c) == call[c].pc \in {"returned", "raised"}
Sent(c) == call[c].pc # "idle"
FrameOf(c) == call[c].id \in WrittenIds
HandlersIdle == \A t \in 1..Len(tasks) : tasks[t].pc \notin {"new", "lock"}
ExitFrames == {k \in 1..Len(stdin) : stdin[k].method = "exit"}

\* C1: a send_request call that returns, returns the result carried by the response
\* whose id is the id allocated to the call, and a call that raises, raises the error
\* carried by that response; never the outcome of another request.
C1_OutcomeOfOwnResponse ==
    \A c \in CallIds :
        /\ call[c].pc = "returned" =>
              /\ replies[call[c].id].kind = "result"
              /\ call[c].result = replies[call[c].id].val
              /\ call[c].error = NoneVal
        /\ call[c].pc = "raised" =>
              /\ replies[call[c].id].kind = "error"
              /\ call[c].error = replies[call[c].id].val

\* C1 witness: two requests were outstanding together and the later one was answered
\* first: it has returned while the earlier one, written before it, has no answer yet.
C1_Witness ==
    \E c, d \in CallIds :
        /\ call[c].id < call[d].id
        /\ Outstanding(c) /\ FrameOf(c) /\ call[c].id \notin Replied
        /\ call[d].pc = "returned"

\* C2: the ids allocated by successive send_request calls are strictly increasing in
\* call order, hence pairwise distinct, whatever else is interleaved.
C2_IdsStrictlyIncreasing ==
    /\ \A i, j \in 1..Len(allocLog) : i < j => allocLog[i] < allocLog[j]
    /\ \A c, d \in CallIds : (c # d /\ Sent(c) /\ Sent(d)) => call[c].id # call[d].id

\* C2 witness: two ids were allocated with a notification sent and a response handled
\* in between or around them.
C2_Witness ==
    /\ Len(allocLog) >= 2
    /\ notifsSent >= 1
    /\ processed # {}

\* C3: a request that was sent and whose response has not been processed has its entry
\* in the pending table (under its id, holding its Request); an entry exists only for
\* an id that was allocated and not yet answered; and every request frame on the wire
\* had its entry inserted (it is pending or was answered).
C3_PendingTable ==
    /\ \A c \in CallIds :
          (Outstanding(c) /\ call[c].id \notin processed) => handlers[call[c].id] = c
    /\ \A i \in Pending :
          /\ Sent(handlers[i]) /\ call[handlers[i]].id = i
          /\ i \notin processed
    /\ WrittenIds \subseteq (Pending \cup processed)

\* C3 witness: one request is pending on the wire while the entry of another one has
\* been removed by its response.
C3_Witness ==
    /\ \E i \in Pending : i \in WrittenIds
    /\ \E j \in processed : j \notin Pending

\* C4 (the claim as stated): once shutdown() has returned and stop() after it, no
\* request that was written to the server is still outstanding and none has an entry
\* in the table.
C4_StopFailsOutstanding ==
    (sdPc = "done" /\ stopPc = "done") =>
        /\ \A c \in CallIds : ~(Outstanding(c) /\ FrameOf(c))
        /\ Pending \cap WrittenIds = {}

\* C5 (the claim as stated): once the read loop has ended on EOF of the child's stdout
\* and the handler tasks have run, no request that was written to the server is
\* still outstanding.
C5_EofFailsOutstanding ==
    (/\ Len(tasks) >= ReadLoop /\ tasks[ReadLoop].pc = "done"
     /\ stdoutEof /\ ~stdoutException
     /\ HandlersIdle) =>
        \A c \in CallIds : ~(Outstanding(c) /\ FrameOf(c))

\* C6 (the claim as stated): a call whose wait timed out has no entry in the pending
\* table any more, and a $/cancelRequest notification was written for it.
C6_TimeoutDiscardsEntry ==
    \A c \in CallIds :
        call[c].pc = "timedout" =>
            /\ call[c].id \notin Pending
            /\ FrameOf(c) => \E k \in 1..Len(stdin) : stdin[k].method = "$/cancelRequest"

C8_ShutdownOrder ==
    /\ \A k \in ExitFrames :
          /\ \E j \in 1..(k - 1) :
                stdin[j] = make_request("shutdown", call[SD].id)
          /\ call[SD].id \in processed
          /\ call[SD].id \in Replied
    /\ stdoutException => ExitFrames # {}

\* C8 witness: shutdown ran to the end (exit written, the read loop told to stop)
\* while another request was still outstanding.
C8_Witness ==
    /\ ExitFrames # {}
    /\ stdoutException
    /\ \E c \in CallIds \ {SD} : Outstanding(c) /\ FrameOf(c)

\* C9 (the claim as stated): once stop() has returned and the start_server scope is
\* left, neither the spawned child nor any process it forked is alive.
C9_NoProcessLeftAlive ==
    (scPc = "exited" /\ tdPc = "done") =>
        /\ child # "alive"
        /\ \A d \in Descs : desc[d] # "alive"

\* C10 (the claim as stated): for every language module, a scope left because its
\* body raised has run stop(), and no process of the child's tree is left alive.
C10_TeardownWhenBodyRaises ==
    (scPc = "exited" /\ bodyRaised) =>
        /\ tdPc = "done"
        /\ child # "alive"
        /\ \A d \in Descs : desc[d] # "alive"

\* The frames on the wire: frame f is made of the segments 3f-2, 3f-1 and 3f.
FrameIdx == 1..(Len(wire) \div 3)
FrameSend(f) == wire[3 * f].k

\* Every frame is whole: its three segments follow each other and belong to one send.
WholeFrames ==
    /\ Len(wire) % 3 = 0
    /\ \A f \in FrameIdx :
          /\ wire[3 * f - 2].seg = "Content-Length"
          /\ wire[3 * f - 1].seg = "Content-Type"
          /\ wire[3 * f].seg = "body"
          /\ wire[3 * f - 2].k = FrameSend(f)
          /\ wire[3 * f - 1].k = FrameSend(f)
          /\ wire[3 * f].payload = issued[FrameSend(f)]

\* C11 (the claim as stated): the wire is a sequence of whole frames, and the frames
\* are in the order in which their sends were called, whichever of send_request,
\* send_notification, send_response and send_error_response made them.
C11_WholeFramesInSendOrder ==
    /\ WholeFrames
    /\ \A f, g \in FrameIdx : f < g => FrameSend(f) < FrameSend(g)

\* C12 (the claim as stated): the handlers of inbound messages are started in arrival
\* order, and a handler is started only when the handler of every earlier message
\* has run to its end.
C12_OneHandlerAtATime ==
    \A t, u \in 1..Len(tasks) :
        (t < u /\ tasks[t].kind = "handle_body" /\ tasks[u].kind = "handle_body") =>
            /\ tasks[t].pc = "new" => tasks[u].pc = "new"
            /\ tasks[u].pc # "new" => tasks[t].pc = "done"

\* C13: when a query request is on the wire, every didChange notification sent
\* before send_request was called has its frame on the wire before the frame of the
\* request.
C13_EditBeforeQuery ==
    \A g \in FrameIdx :
        wire[3 * g].payload.type = "request" =>
            \A k \in 1..(FrameSend(g) - 1) :
                IsEdit(issued[k]) => \E f \in 1..(g - 1) : FrameSend(f) = k

\* C13 witness: a didChange was sent, then an answer to a server request was issued
\* and a query request sent; the frame of the didChange is before that of the query.
C13_Witness ==
    \E f, g \in FrameIdx :
        /\ f < g
        /\ IsEdit(wire[3 * f].payload)
        /\ wire[3 * g].payload.type = "request"
        /\ \E k \in 1..Len(issued) :
              /\ FrameSend(f) < k
              /\ k < FrameSend(g)
              /\ issued[k].type \in {"response", "error_response"}

\* C14: when the response is an error response, send_request raises an error with
\* the code and the message of the response; when the response carries a result,
\* null included, send_request returns that result and raises nothing.
C14_OutcomeCarriesResponse ==
    rqPc = "done" =>
        /\ (response.hasError /\ ~response.hasResult) =>
              /\ rqOut.kind = "raised"
              /\ rqOut.error.code = response.error.code
              /\ rqOut.error.message = response.error.message
        /\ (response.hasResult /\ ~response.hasError) =>
              /\ rqOut.kind = "returned"
              /\ rqOut.result = response.result

\* C14 witness: send_request has raised for an error response that carries a code,
\* a non-empty message and data.
C14_Witness ==
    /\ rqPc = "done"
    /\ response.hasError
    /\ ~response.hasResult
    /\ response.error.message # 0
    /\ response.error.data
    /\ rqOut.kind = "raised"

\* C15 (the claim as stated): a request issued while there is no server process
\* (before start(), or after stop()) is rejected: its frame is not written and the
\* call raises instead of being left suspended.
C15_RejectedOutsideReady ==
    \A c \in CallIds \ {SD} :
        (Sent(c) /\ ~FrameOf(c)) => call[c].pc = "raised"

\* The `initialized` notification is among the frames start_server wrote.
InitializedWritten == \E i \in 1..Len(scWire) : scWire[i] = "initialized"

\* C16: in the start_server of every language module, the first frame written is
\* the initialize request, `initialized` is written only once the answer to
\* initialize has been received, and the caller's scope body runs only once
\* `initialized` has been written.
C16_HandshakeOrder ==
    /\ scWire # <<>> => scWire[1] = "initialize"
    /\ InitializedWritten => initResponse \in {"ok", "mismatch"}
    /\ scPc = "body" => InitializedWritten

\* C16 witness: the scope body of a module runs after the two frames of the handshake,
\* the answer to initialize having been received.
C16_Witness ==
    /\ scPc = "body"
    /\ initResponse = "ok"
    /\ scWire = <<"initialize", "initialized">>

\* C17 (the claim as stated): the caller's scope body runs only when the readiness
\* signal of the module, its server_ready event where it has one, is latched.
C17_ReadyBeforeControl ==
    scPc = "body" => (HasServerReady(lang) => server_ready)

\* C18 (the claim as stated): when the answer to initialize lacks an expected
\* capability or has another value for it, start_server still completes the
\* handshake: `initialized` is written and the scope is not left by an exception
\* before its body has run.
C18_MismatchNeverAborts ==
    initResponse = "mismatch" => InitializedWritten

\* The text the edits made since the document was opened give, applied in order to
\* the text it was opened with.
RECURSIVE Replay(_, _)
Replay(text, edits) ==
    IF edits = <<>> THEN text ELSE Replay(ApplyEdit(text, Head(edits)), Tail(edits))

\* The didChange notifications sent since the document was last opened.
SessionChanges(p) ==
    LET log == docSent[p]
        opens == {i \in 1..Len(log) : log[i].method = "textDocument/didOpen"}
        from == IF opens = {} THEN 0 ELSE CHOOSE i \in opens : \A j \in opens : j <= i
    IN  SubSeq(log, from + 1, Len(log))

\* C19: the open-count of a document is never negative and is zero exactly when the
\* document is not tracked; didOpen is sent by the open that raises the count from 0
\* to 1 and by no other step, didClose by the close that lowers it from 1 to 0 and by
\* no other step, so that the didOpen sent exceed the didClose sent by one while the
\* document is open and by none when it is not.
C19_OpenCount ==
    /\ [](\A p \in Paths :
            /\ open_file_buffers[p].count >= 0
            /\ (open_file_buffers[p].count = 0) <=> ~open_file_buffers[p].tracked
            /\ NumSent(p, "textDocument/didOpen") - NumSent(p, "textDocument/didClose")
                  = (IF open_file_buffers[p].count > 0 THEN 1 ELSE 0))
    /\ [][\A p \in Paths :
            /\ (NumSent(p, "textDocument/didOpen")' # NumSent(p, "textDocument/didOpen"))
                  <=> (open_file_buffers[p].count = 0 /\ open_file_buffers'[p].count = 1)
            /\ (NumSent(p, "textDocument/didClose")' # NumSent(p, "textDocument/didClose"))
                  <=> (open_file_buffers[p].count = 1 /\ open_file_buffers'[p].count = 0)]_vars

\* C19 witness: nested opens of a document that was closed and opened again: the
\* count is two, and one didOpen more than didClose has been sent.
C19_Witness ==
    \E p \in Paths :
        /\ open_file_buffers[p].count = 2
        /\ NumSent(p, "textDocument/didOpen") = 2
        /\ NumSent(p, "textDocument/didClose") = 1

\* C20: the versions sent with the didChange notifications of an open document are
\* strictly increasing, the last being the version of the document, and the text
\* get_open_file_text returns is the text the document was opened with after all its
\* edits so far, applied in order.
C20_VersionsAndOverlay ==
    \A p \in Paths :
        open_file_buffers[p].tracked =>
            LET changes == SessionChanges(p) IN
            /\ Len(changes) = Len(docEdits[p])
            /\ \A i, j \in 1..Len(changes) : i < j => changes[i].version < changes[j].version
            /\ \A i \in 1..Len(changes) :
                  /\ changes[i].version > 0
                  /\ changes[i].version <= open_file_buffers[p].version
            /\ get_open_file_text(p) = Replay(Disk(p), docEdits[p])

\* C20 witness: an open document edited twice, an insertion then a deletion, whose
\* text differs from the text on disk.
C20_Witness ==
    \E p \in Paths :
        /\ open_file_buffers[p].tracked
        /\ Len(docEdits[p]) = 2
        /\ docEdits[p][1].op = "insert"
        /\ docEdits[p][2].op = "delete"
        /\ get_open_file_text(p) # Disk(p)

\* C21: inserting a text at a position of an open document returns the position of
\* the end of the inserted text, whose line is the line of the insertion plus the
\* number of newlines inserted; deleting from the position of the insertion to the
\* returned position returns the inserted text and gives the overlay back the text
\* it had before the insertion.
C21_InsertThenDelete ==
    \A p \in Paths :
        /\ Len(docEdits[p]) >= 1 =>
              LET ins == docEdits[p][1] IN
              /\ ins.to.line = ins.from.line + NewlinesIn(ins.txt)
              /\ IndexOf(docEdits[p][1].before, ins.from) + Len(ins.txt)
                    = IndexOf(IF Len(docEdits[p]) = 1 THEN get_open_file_text(p)
                              ELSE docEdits[p][2].before, ins.to)
        /\ Len(docEdits[p]) = 2 =>
              LET ins == docEdits[p][1]
                  del == docEdits[p][2] IN
              (del.from = ins.from /\ del.to = ins.to) =>
                  /\ del.txt = ins.txt
                  /\ get_open_file_text(p) = ins.before

\* C21 witness: a text with a newline was inserted in the middle of a line of a
\* text of two lines, and the range up to the returned position deleted again.
C21_Witness ==
    \E p \in Paths :
        /\ Len(docEdits[p]) = 2
        /\ docEdits[p][1].from.line = 1
        /\ docEdits[p][1].from.col = 0
        /\ NewlinesIn(docEdits[p][1].txt) = 1
        /\ Len(docEdits[p][1].txt) = 2
        /\ docEdits[p][2].from = docEdits[p][1].from
        /\ docEdits[p][2].to = docEdits[p][1].to
        /\ get_open_file_text(p) = docEdits[p][1].before

\* C22: a readiness signal only moves forward: server_ready, completions_available
\* and service_ready_event, once set, are set in every later state, whatever
\* notification arrives.
C22_SignalsOnlyForward ==
    [][/\ server_ready => server_ready'
       /\ completions_available => completions_available'
       /\ service_ready_event => service_ready_event']_vars

\* C22 witness: a module whose handlers have set server_ready and
\* service_ready_event, in a state where the server may still send notifications.
C22_Witness ==
    /\ LatchesOnStatus(lang)
    /\ scPc = "body"
    /\ child = "alive"
    /\ server_ready
    /\ service_ready_event
    /\ completions_available

\* The message has been handled and every task it created has run.
InboundSettled == inPc = "done" /\ sendTasks = <<>>

\* C23: a server request without registered handler is answered with exactly one
\* error response with the id of the request and the MethodNotFound code; a server
\* request whose handler returns is answered with exactly one response with the id
\* of the request and the value the handler returned. No second answer is ever
\* pending or written.
C23_RequestAnswered ==
    inbound.type = "request" =>
        /\ Len(sendTasks) + Len(written) <= 1
        /\ (InboundSettled /\ on_handlers.kind = "none") =>
              /\ Len(written) = 1
              /\ written[1].type = "error_response"
              /\ written[1].id = inbound.id
              /\ written[1].error.code = MethodNotFound
        /\ (InboundSettled /\ on_handlers.kind = "returns") =>
              /\ Len(written) = 1
              /\ written[1].type = "response"
              /\ written[1].id = inbound.id
              /\ written[1].result = on_handlers.result

\* C23 witness: the answer to the second request of the server, whose handler
\* returned a value that is not null, is written.
C23_Witness ==
    /\ InboundSettled
    /\ inbound.type = "request"
    /\ inbound.id = 2
    /\ on_handlers.kind = "returns"
    /\ on_handlers.result # NoneVal
    /\ Len(written) = 1

\* C24: when the handler of a server request raises, exactly one error response
\* with the id of the request is written: with the code and message of the raised
\* protocol Error, or with the InternalError code and the message of any other
\* exception; no response with a result is written, and the read loop is running.
C24_HandlerRaises ==
    (inbound.type = "request" /\ on_handlers.kind \in {"raises", "raises_error"}) =>
        /\ tasks[ReadLoop].pc = "running"
        /\ Len(sendTasks) + Len(written) <= 1
        /\ \A i \in 1..Len(written) : written[i].type # "response"
        /\ InboundSettled =>
              /\ Len(written) = 1
              /\ written[1].type = "error_response"
              /\ written[1].id = inbound.id
              /\ written[1].error.message = on_handlers.message
              /\ written[1].error.code =
                    (IF on_handlers.kind = "raises_error" THEN on_handlers.code
                     ELSE InternalError)

\* C24 witness: the error response for a handler that raised an exception that is
\* not a protocol Error, with a message, is written.
C24_Witness ==
    /\ InboundSettled
    /\ inbound.type = "request"
    /\ on_handlers.kind = "raises"
    /\ on_handlers.message # 0
    /\ Len(written) = 1

\* The exception of a notification handler was passed to the logger.
ErrorLogged == \E i \in 1..Len(logged) : logged[i].what = "error"

\* What C26 says of an inbound notification apart from the logging of exceptions:
\* nothing is written or handed to a send task for it, the pending table and the read
\* loop are as they were, and a notification without handler or whose handler
\* returns or is cancelled logs no error.
NotificationContained ==
    /\ sendTasks = <<>>
    /\ written = <<>>
    /\ Pending = {}
    /\ tasks[ReadLoop].pc = "running"
    /\ on_handlers.kind \in {"none", "returns", "cancelled"} => ~ErrorLogged

\* C26 (the claim as stated): an inbound notification writes nothing and leaves the
\* pending table alone, and the exception of its handler is logged exactly when the
\* shutdown reply has not been received.
C26_LoggedUnlessShutdown ==
    inbound.type = "notification" =>
        /\ NotificationContained
        /\ (inPc = "done" /\ on_handlers.kind \in {"raises", "raises_error"}) =>
              (ErrorLogged <=> ~received_shutdown)

\* C26 (amended): as above, but the exception of the handler is logged exactly when
\* the shutdown reply has not been received and the handler has a logger.
C26_LoggedUnlessShutdownOrNoLogger ==
    inbound.type = "notification" =>
        /\ NotificationContained
        /\ (inPc = "done" /\ on_handlers.kind \in {"raises", "raises_error"}) =>
              (ErrorLogged <=> (~received_shutdown /\ logger))

\* C26 witness: the handler of a notification raised before the shutdown reply, and
\* the exception was logged.
C26_Witness ==
    /\ inbound.type = "notification"
    /\ inPc = "done"
    /\ on_handlers.kind = "raises"
    /\ ~received_shutdown
    /\ logger
    /\ ErrorLogged

\* C25: a response that carries both a result and an error, or neither, makes
\* send_request raise an InvalidRequest error; the caller never gets a result.
C25_IllFormedResponse ==
    (response.hasResult <=> response.hasError) =>
        /\ rqOut.kind # "returned"
        /\ rqPc = "notified" => (request.error.isError /\ request.error.code = InvalidRequest)
        /\ rqPc = "done" =>
              /\ rqOut.kind = "raised"
              /\ rqOut.error.code = InvalidRequest

\* C25 witness: send_request has raised for a response that carries a result that
\* is not null together with an error.
C25_Witness ==
    /\ rqPc = "done"
    /\ response.hasResult
    /\ response.hasError
    /\ response.result # NoneVal
    /\ rqOut.kind = "raised"

\* The teardown has closed stdin / has reached the close of stdout and stderr.
PipeOrder == <<"stdin", "stdout", "stderr">>
LastSignal == signalLog[Len(signalLog)]
SignalSent == signalLog' # signalLog

C29_DescendantsThenChild ==
    /\ [](\A i \in 1..Len(signalLog) :
            /\ signalLog[i].order = Ascending(signalLog[i].children) \o <<TheChild>>
            /\ ~signalLog[i].raised)
    /\ [][SignalSent =>
            /\ child = "alive" =>
                  signalLog'[Len(signalLog')].children = {d \in Descs : desc[d] = "alive"}
            /\ \A d \in signalLog'[Len(signalLog')].children :
                  (d \notin signalRaises
                   /\ (signalLog'[Len(signalLog')].sig = "kill" \/ ~descIgnoresTerm[d]))
                  => desc'[d] = "dead"]_vars

\* C29 witness: the kill went to two forked processes and then to the child, one of
\* the two forked after the terminate, the signal to the first raising.
C29_Witness ==
    /\ Len(signalLog) = 2
    /\ signalLog[2].children = {1, 2}
    /\ signalLog[1].children = {1}
    /\ signalRaises = {1}
    /\ signalLog[2].order = <<1, 2, TheChild>>
    /\ desc[2] = "dead"

\* C30: in every module, once the server process has been spawned every method the
\* module's start_server gives a handler has it, and none is registered later: no
\* message of the server is dispatched while one of them is missing.
C30_HandlersBeforeSpawn ==
    /\ []((child # "none" \/ process = "running") => registered = HandlersOf(lang))
    /\ [][child # "none" => registered' = registered]_vars

\* C30 witness: gopls has been spawned with its nine handlers registered, and its
\* handler of language/status has run before initialize was answered.
C30_Witness ==
    /\ lang = "gopls"
    /\ scPc = "initialize"
    /\ child = "alive"
    /\ registered = HandlersOf("gopls")
    /\ Cardinality(registered) = 9
    /\ service_ready_event

\* The whole of what the child wrote reached the stream; the read loop and the
\* tasks it created are over.
Complete == streamLen = Len(StreamOf(frames))
Quiet == rfPc \in {"returned", "raised"} /\ handled = Len(deframed)
KindsIn == {frames[i].kind : i \in 1..Len(frames)}
IsPrefix(p, q) == Len(p) <= Len(q) /\ p = SubSeq(q, 1, Len(p))

RECURSIVE OkPayloads(_)
OkPayloads(fs) ==
    IF fs = <<>> THEN <<>>
    ELSE (IF Head(fs).kind = "ok" THEN <<[method |-> Loads(Head(fs).body).method]>>
          ELSE <<>>) \o OkPayloads(Tail(fs))
BodiesOf(fs) == [i \in 1..Len(fs) |-> fs[i].body]
Malformed == {i \in 1..Len(frames) : frames[i].kind # "ok"}

\* C31: whatever the stream holds and wherever it ends, by EOF or by a reset, the
\* read loop is never left by an exception.
C31_ReadLoopEndsCleanly == rfPc # "raised"

\* C32: when a stream of well-formed and malformed frames has been read to its end
\* by a handler that logs, every malformed frame has been logged, every well-formed
\* frame has been dispatched, in order, and nothing else has.
C32_MalformedFrameSkipped ==
    (Complete /\ Quiet /\ logger /\ streamEnd = "eof" /\ "empty" \notin KindsIn) =>
        /\ rfPc = "returned"
        /\ dispatched = OkPayloads(frames)
        /\ Len(frameLog) = Cardinality(Malformed)

\* C33: in a stream of well-formed frames and frames with `Content-Length: 0`, every
\* frame is deframed, the empty ones with an empty body; only the payloads of the
\* others are dispatched, in order; nothing is written to the server and the
\* pending table stays as it was.
C33_EmptyFrameIgnored ==
    (Complete /\ KindsIn \subseteq {"ok", "empty"}) =>
        /\ IsPrefix(deframed, BodiesOf(frames))
        /\ IsPrefix(dispatched, OkPayloads(frames))
        /\ written = <<>> /\ wire = <<>> /\ stdin = <<>>
        /\ Pending = {}
        /\ Quiet => /\ rfPc = "returned"
                    /\ deframed = BodiesOf(frames)
                    /\ dispatched = OkPayloads(frames)

\* C33 witness: an empty frame and then a well-formed one have been read: two bodies
\* were deframed, the first empty, and the second frame's payload was dispatched.
C33_Witness ==
    /\ Complete /\ Quiet
    /\ Len(frames) = 2
    /\ frames[1].kind = "empty" /\ frames[2].kind = "ok"
    /\ deframed = <<<<>>, Body([method |-> <<TwoByte>>])>>
    /\ dispatched = <<[method |-> <<TwoByte>>]>>

\* C34: the Content-Length line of create_message(payload) parses to the number of
\* bytes of the body, and the read loop turns the frames of any sequence of payloads
\* into the same bodies, one per frame, in order, which decode to the payloads.
C34_FramingRoundTrip ==
    /\ \A p \in Payloads :
          /\ content_length(ReadLine(MessageBytes(p)).line) =
                [error |-> FALSE, n |-> Len(Body(p))]
          /\ Loads(Body(p)) = [kind |-> "object", method |-> p.method]
    /\ KindsIn \subseteq {"ok"} =>
          /\ IsPrefix(deframed, BodiesOf(frames))
          /\ (Complete /\ Quiet) =>
                /\ deframed = BodiesOf(frames)
                /\ dispatched = OkPayloads(frames)

\* C34 witness: two frames, one with a body of three bytes and one with a body of
\* four bytes for three characters, have been read back as their bodies.
C34_Witness ==
    /\ Complete /\ Quiet
    /\ Len(frames) >= 2
    /\ KindsIn = {"ok"}
    /\ frames[1].body # frames[2].body
    /\ deframed = BodiesOf(frames)
    /\ \E i \in 1..Len(deframed) : Len(deframed[i]) = 4 /\ Len(Loads(deframed[i]).method) = 1

\* A _handle_body task has stored the response of call c and waits for the lock of
\* its request.cv, which send_request holds.
HandledEarly(c) ==
    /\ call[c].pc = "draining"
    /\ call[c].id \in processed
LockWaiter(c) == \E t \in 1..Len(tasks) : tasks[t].pc = "lock" /\ tasks[t].req = c

\* C35: a call whose response was handled while send_request was still flushing the
\* request is woken all the same and ends with that response's outcome; a call that
\* waits for a handled response has been notified or is about to be.
C35_NoLostWakeup ==
    /\ [](\A c \in CallIds :
            (call[c].pc \in {"draining", "waiting"} /\ call[c].id \in processed) =>
                (call[c].notified \/ LockWaiter(c)))
    /\ \A c \in CallIds :
          HandledEarly(c) ~>
             /\ call[c].pc = Outcome(call[c])
             /\ call[c].pc = (IF replies[call[c].id].kind = "error" THEN "raised"
                              ELSE "returned")

\* C35 witness: the response of a call that is still in drain() has been stored in
\* its Request, and the task that will notify it waits for the lock.
C35_Witness ==
    \E c \in CallIds \ {SD} : HandledEarly(c) /\ LockWaiter(c) /\ ~call[c].notified

\* A task about to handle a response whose id has no entry in _response_handlers.
StrayTask(t) ==
    /\ tasks[t].kind = "handle_body"
    /\ tasks[t].pc = "new"
    /\ HandlerKey(tasks[t].msg) \notin Pending

KeyErrorOf(msg) == [what |-> "KeyError", message |-> msg.id]

Stopped == process = "none" /\ tdPc \in {"done", "cancel", "cleanup"}

\* C37: stop() is idempotent. When a stop() returns the handler holds no process and
\* no task; from then on (a second stop() included) no signal is sent, no pipe is
\* closed, and a notification or response that is sent writes nothing to the child.
C37_StopIdempotent ==
    /\ [][(tdPc # "done" /\ tdPc' = "done") =>
            (process' = "none" /\ tasks' = <<>> /\ sendTasks' = <<>>)]_vars
    /\ [][Stopped =>
            /\ Stopped'
            /\ signalLog' = signalLog
            /\ closed' = closed
            /\ stdin' = stdin
            /\ childEdits' = childEdits
            /\ written' = written]_vars

\* C37 witness: the first stop() signalled the tree and closed the three pipes; a
\* notification and a response were sent after it and wrote nothing; stop() has been
\* called again and has found no process.
C37_Witness ==
    /\ Stopped
    /\ tdPc = "cleanup"
    /\ signalLog # <<>>
    /\ Len(closed) = 3
    /\ notifsSent > 0
    /\ stdin = <<>>
    /\ childEdits = 0
    /\ written = <<>>

Wrote(m) == \E i \in 1..Len(scWire) : scWire[i] = m

\* start_server has left by an exception of the handshake: `initialize` was answered
\* with an error, timed out, or the capabilities failed an assertion.
HandshakeFailed ==
    scPc = "exited" /\ scExit = "exception" /\ Wrote("initialize") /\ ~Wrote("initialized")

\* C38: when the handshake fails after the child was spawned, stop() has run to its
\* end and the child is no longer running by the time start_server raises.
C38_HandshakeFailureStops ==
    HandshakeFailed => (tdPc = "done" /\ child # "alive")

\* The scope body returned and the `shutdown` request was answered with an error:
\* `exit` was never written.
ShutdownFailed ==
    scPc = "exited" /\ ~bodyRaised /\ Wrote("shutdown") /\ ~Wrote("exit")

\* C39: when the body returns normally and `shutdown` fails, every module has still
\* run stop() to its end, and the child is no longer running, when the scope is left.
C39_StopAfterFailedShutdown ==
    ShutdownFailed => (tdPc = "done" /\ child # "alive")

====
